---- MODULE Spec2Model ----
(***************************************************************************)
(* Plugin registry and hot-reload engine of modernCRM.                     *)
(*                                                                         *)
(*   ModuleCreator   (integration/plugins/module-creator.ts)               *)
(*   PluginHotReload (integration/plugins/gemini-client-mock.ts, l.72-517) *)
(*   Sprint3Integration.toggleModule (integration/plugins/                 *)
(*                                    sprint3-integration.ts)              *)
(*                                                                         *)
(* The engine runs on one JavaScript event loop: the code between two      *)
(* awaits runs without interruption, and every await is a point where the  *)
(* other handlers may run.  One action of this module is one such segment: *)
(* the awaited filesystem call together with the code that runs once it    *)
(* has answered, up to the next await.                                     *)
(***************************************************************************)
EXTENDS Integers, Sequences, FiniteSets, TLC

(* ------------------------------ bounds -------------------------------- *)

\* API calls started in one behaviour.
MaxCalls == 2
\* API calls in flight at the same time.
MaxInFlight == 2
\* Milliseconds the wall clock advances in one behaviour.
MaxClock == 1
\* Filesystem writes that fail in one behaviour.
MaxFaults == 1
\* Manifest-change notifications the watcher holds undelivered.
MaxNotifs == 2
\* Files in one createModule payload of the scaffolding specification.
MaxFiles == 2
\* API calls started in one behaviour of the scaffolding specification.
MaxScaffoldCalls == 2

Slugs == {"a", "b"}

(* --------------------------- paths and types -------------------------- *)

NoType == "none"
NoPath == ""

\* Relative file paths a payload may name.  NoPath is a missing or empty path.
PayloadPaths ==
  {NoPath, "component.tsx", "index.ts", "lib/index.ts", "package.json",
   "README.md", "styles.css", "plugin.json", "./util.ts"}

\* A payload path with a parent-directory segment: from generated/<slug>/
\* it leads to generated/b/util.ts.
EscapingPath == "../b/util.ts"

\* path.join(modulePath, file.path): the location a payload path is written
\* to, as the directory below generated/ ("." for the module's own) and the
\* path inside that directory.
JoinDir(p) == IF p = EscapingPath THEN "b" ELSE "."
NormPath(p) == IF p \in {"./util.ts", EscapingPath} THEN "util.ts" ELSE p

\* path.basename(p)
BaseName(p) ==
  CASE p = "lib/index.ts" -> "index.ts"
    [] p = "./util.ts"    -> "util.ts"
    [] p = EscapingPath   -> "util.ts"
    [] OTHER              -> p

\* path.extname(p)
ExtName(p) ==
  CASE p \in {"component.tsx"} -> ".tsx"
    [] p \in {"index.ts", "lib/index.ts", "./util.ts", "util.ts", EscapingPath,
              "form.test.ts", "api.spec.ts", "migration.ts", "schema.ts"} -> ".ts"
    [] p \in {"package.json", "plugin.json", "module-metadata.json",
              "migration.json", "schema.json", "testdata.json"} -> ".json"
    [] p = "migration.test.js" -> ".js"
    [] p = "README.md" -> ".md"
    [] p = "styles.css" -> ".css"
    [] p = "init.sql" -> ".sql"
    [] p = "schema.graphql" -> ".graphql"
    [] OTHER -> ""

\* fileName.includes('.test.') || fileName.includes('.spec.')
HasTestMark(name) == name \in {"form.test.ts", "api.spec.ts", "migration.test.js"}
\* fileName.includes('migration')
HasMigrationMark(name) == name \in {"migration.json", "migration.ts", "migration.test.js"}
\* fileName.includes('schema')
HasSchemaMark(name) == name \in {"schema.graphql", "schema.json", "schema.ts"}

\* p.endsWith(suffix), for the suffixes addRequiredFiles and processFileContent use
EndsWithIndex(p) == p \in {"index.ts", "lib/index.ts"}
EndsWithPackageJson(p) == p = "package.json"
EndsWithReadme(p) == p = "README.md"
IsSourceLike(p) == ExtName(p) \in {".ts", ".tsx", ".js", ".jsx"}

\* ModuleCreator.determineFileType
determineFileType(filePath, explicitType) ==
  LET ext == ExtName(filePath)
      fileName == BaseName(filePath)
  IN  IF explicitType # NoType THEN explicitType
      ELSE IF ext \in {".tsx", ".jsx"} THEN "component"
      ELSE IF ext = ".ts" /\ ~HasTestMark(fileName) THEN "config"
      ELSE IF ext = ".sql" \/ HasMigrationMark(fileName) THEN "migration"
      ELSE IF HasTestMark(fileName) THEN "test"
      ELSE IF ext \in {".css", ".scss", ".less"} THEN "style"
      ELSE IF fileName = "schema.graphql" \/ HasSchemaMark(fileName) THEN "schema"
      ELSE "config"

(* ------------------------------ contents ------------------------------ *)

\* The text of a payload file: missing or empty, plain code, or code with a
\* relative import (from './x').
NoContent == ""
RawContents == {NoContent, "code", "rel"}

\* The text of a file on disk: what wrote it (kind), whether the provenance
\* header leads it, its body, the component paths it names, and for
\* module-metadata.json the module id and creation time.
Text(kind, hdr, body, refs, uid, stamp) ==
  [kind |-> kind, hdr |-> hdr, body |-> body, refs |-> refs, uid |-> uid,
   stamp |-> stamp]

\* ModuleCreator.processFileContent: relative imports are rewritten, and a
\* TypeScript/JavaScript file gets the header.
processFileContent(content, filePath) ==
  Text("user", IsSourceLike(filePath),
       IF content = "rel" THEN "abs" ELSE content, <<>>, 0, 0)

ModuleFile(p, c, t) == [path |-> p, content |-> c, type |-> t]

\* The paths of the component-typed files of a list, in order.
RECURSIVE ComponentPaths(_)
ComponentPaths(files) ==
  IF files = <<>> THEN <<>>
  ELSE (IF Head(files).type = "component" THEN <<Head(files).path>> ELSE <<>>)
       \o ComponentPaths(Tail(files))

\* ModuleCreator.generateIndexFile / generatePackageJson / generateReadme
generateIndexFile(files) == Text("index", FALSE, "", ComponentPaths(files), 0, 0)
generatePackageJson == Text("package", FALSE, "", <<>>, 0, 0)
generateReadme == Text("readme", FALSE, "", <<>>, 0, 0)

PathsOf(files) == {files[i].path : i \in 1..Len(files)}

\* ModuleCreator.addRequiredFiles
addRequiredFiles(files) ==
  LET existingPaths == PathsOf(files)
      f1 == IF \E p \in existingPaths : EndsWithIndex(p) THEN files
            ELSE Append(files, ModuleFile("index.ts", generateIndexFile(files), "config"))
      f2 == IF \E p \in existingPaths : EndsWithPackageJson(p) THEN f1
            ELSE Append(f1, ModuleFile("package.json", generatePackageJson, "config"))
      f3 == IF \E p \in existingPaths : EndsWithReadme(p) THEN f2
            ELSE Append(f2, ModuleFile("README.md", generateReadme, "config"))
  IN  f3

\* The validation of processModuleFiles: !file.path || !file.content
InvalidFile(file) == file.path = NoPath \/ file.content = NoContent

RECURSIVE ProcessEach(_)
ProcessEach(files) ==
  IF files = <<>> THEN <<>>
  ELSE <<ModuleFile(Head(files).path,
                    processFileContent(Head(files).content, Head(files).path),
                    determineFileType(Head(files).path, Head(files).type))>>
       \o ProcessEach(Tail(files))

\* A processModuleFiles that validates the first file only.
processModuleFilesFirstOnly(files) ==
  IF files # <<>> /\ InvalidFile(files[1])
  THEN [ok |-> FALSE, files |-> <<>>]
  ELSE [ok |-> TRUE, files |-> addRequiredFiles(ProcessEach(files))]

\* ModuleCreator.processModuleFiles: [ok, files]; ok = FALSE is the thrown
\* "Invalid file structure" error.
processModuleFiles(files) ==
  IF \E i \in 1..Len(files) : InvalidFile(files[i])
  THEN [ok |-> FALSE, files |-> <<>>]
  ELSE [ok |-> TRUE, files |-> addRequiredFiles(ProcessEach(files))]

\* ModuleCreator.createPluginManifest, as the text of plugin.json
createPluginManifest(files) == Text("manifest", FALSE, "", ComponentPaths(files), 0, 0)

\* The text of module-metadata.json: id, config and metadata.
ModuleMetadata(uid, stamp) == Text("metadata", FALSE, "", <<>>, uid, stamp)

\* The writes of writeModuleToFileSystem after the mkdir of the module root,
\* in order: each file, then plugin.json, then module-metadata.json.
WriteList(files, uid, stamp) ==
  [i \in 1..Len(files) |->
     [into |-> JoinDir(files[i].path), path |-> NormPath(files[i].path),
      text |-> files[i].content]]
  \o <<[into |-> ".", path |-> "plugin.json", text |-> createPluginManifest(files)],
       [into |-> ".", path |-> "module-metadata.json",
        text |-> ModuleMetadata(uid, stamp)]>>

\* ModuleCreator.loadModuleFiles: every file below the module directory but
\* hidden files and module-metadata.json, its type inferred from its path.
IsHidden(name) == name \in {".env"}

loadModuleFiles(dir) ==
  {ModuleFile(p, dir[p], determineFileType(p, NoType)) :
     p \in {q \in DOMAIN dir :
              ~IsHidden(BaseName(q)) /\ BaseName(q) # "module-metadata.json"}}

(* ------------------------------- state -------------------------------- *)

VARIABLES
  manifest,       \* plugins.json: Bad, or the sequence config.plugins
  fs,             \* generated/: slug -> (relative path -> text)
  rootExists,     \* whether the directory generated/ exists
  loadedPlugins,  \* PluginHotReload.loadedPlugins: id -> [enabled, meta]
  watchers,       \* PluginHotReload.watchers: the names of the live watchers
  isWatching,     \* PluginHotReload.isWatching
  notifs,         \* 'change' notifications of plugins.json not yet delivered
  start,          \* the position of PluginHotReload.start()
  passes,         \* the runs of handleConfigChange, by number
  nPasses,        \* runs of handleConfigChange begun
  calls,          \* the API calls in flight, by slot
  callsLeft,      \* API calls that may still begin
  ret,            \* the call that returned last
  events,         \* everything the engine emitted, in order
  clock,          \* the wall clock, in milliseconds
  faults,         \* filesystem writes that failed
  nextUid         \* stands for uuidv4(): the next fresh module id

vars == <<manifest, fs, rootExists, loadedPlugins, watchers, isWatching, notifs,
          start, passes, nPasses, calls, callsLeft, ret, events, clock, faults,
          nextUid>>

\* plugins.json is missing or is not valid JSON: a value that no manifest
\* the code reads or writes has.
Bad == <<[id |-> "?", name |-> "?", enabled |-> FALSE, meta |-> 0]>>

EmptyFn == [x \in {} |-> TRUE]
Put(f, k, v) == [x \in DOMAIN f \cup {k} |-> IF x = k THEN v ELSE f[x]]
Drop(f, k) == [x \in DOMAIN f \ {k} |-> f[x]]
Min(a, b) == IF a < b THEN a ELSE b

\* One element of config.plugins.  version is always '1.0.0', type is always
\* 'generated-module' and path is always ./generated/<id>; meta stands for
\* metadata, which differs between two entries of one id by createdAt only.
\* name is the id until someone edits it.
Entry(id, en, meta) == [id |-> id, name |-> id, enabled |-> en, meta |-> meta]

Ids(cfg) == {cfg[i].id : i \in 1..Len(cfg)}
ManifestIds == IF manifest = Bad THEN {} ELSE Ids(manifest)
HasEntry(cfg, id) == \E i \in 1..Len(cfg) : cfg[i].id = id
\* config.plugins.find(p => p.id === id): the first match
FindIndex(cfg, id) == CHOOSE i \in 1..Len(cfg) :
                        cfg[i].id = id /\ \A j \in 1..(i - 1) : cfg[j].id # id
\* config.plugins.filter(p => p.id !== id)
RECURSIVE FilterOut(_, _)
FilterOut(cfg, id) ==
  IF cfg = <<>> THEN <<>>
  ELSE (IF Head(cfg).id = id THEN <<>> ELSE <<Head(cfg)>>) \o FilterOut(Tail(cfg), id)

\* fs.access of ./generated/<id>, the path of the entry of id
PathExists(id) == id \in DOMAIN fs

\* A write of plugins.json that succeeded: the watcher, when there is one,
\* is told; notifications past MaxNotifs coalesce with the last one.
Notified == IF "config" \in watchers THEN Min(notifs + 1, MaxNotifs) ELSE notifs

\* Whether a filesystem write may fail now.
Outcomes == IF faults < MaxFaults THEN {TRUE, FALSE} ELSE {TRUE}

(* ------------------------------- events ------------------------------- *)

\* An emitted event: the emitter's event name, the ReloadEvent's type,
\* the plugin it carries, its timestamp, and the handleConfigChange run that
\* emitted it (0 when it was not one).
Event(name, type, id, rec, by) ==
  [name |-> name, type |-> type, id |-> id, enabled |-> rec.enabled,
   meta |-> rec.meta, ts |-> clock, by |-> by]

NoRec == [name |-> "", enabled |-> FALSE, meta |-> 0]

\* A loadPlugin without the fs.access of the path.
PluginInfoNoAccess(entry) ==
  [name |-> entry.name, enabled |-> entry.enabled, meta |-> entry.meta]

\* PluginHotReload.loadPlugin: the record it stores for a manifest entry.
PluginInfo(entry) ==
  [name |-> entry.name, enabled |-> entry.enabled /\ PathExists(entry.id),
   meta |-> entry.meta]

\* PluginHotReload.loadPlugin: the events it emits.
LoadEvents(entry, by) ==
  IF PluginInfo(entry).enabled
  THEN <<Event("plugin-loaded", "added", entry.id, PluginInfo(entry), by)>>
  ELSE <<>>

(* -------------------------- PluginHotReload.start ---------------------- *)

\* A watcher that was closed but is still in the map goes by its closed
\* name; a watcher that is live but no longer in the map, its key having
\* been set to a newer watcher, by its untracked name (one name for however
\* many there are).
ClosedName(w) == IF w = "config" THEN "config (closed)" ELSE "generated-modules (closed)"
UntrackedName(w) ==
  IF w = "config" THEN "config (untracked)" ELSE "generated-modules (untracked)"

\* watch(...) and this.watchers.set(watcherName, watcher): the key's
\* earlier watcher leaves the map; it is not closed.
Register(W, w) ==
  ((W \ {ClosedName(w)}) \cup {w}) \cup (IF w \in W THEN {UntrackedName(w)} ELSE {})

\* loadAllPlugins returned: startWatching registers the manifest watcher
\* and awaits fs.access of generated/.
WatchFile == Register(watchers, "config")

\* start(), first segment: loadAllPlugins reads plugins.json.  A manifest
\* that cannot be read or parsed leads to createEmptyConfig; otherwise the
\* table is cleared and the entries are loaded one by one.
StRead ==
  /\ start.pc = "new"
  /\ IF manifest = Bad
     THEN /\ start' = [start EXCEPT !.pc = "mkcfg"]
          /\ UNCHANGED <<loadedPlugins, watchers>>
     ELSE /\ loadedPlugins' = EmptyFn
          /\ IF manifest = <<>>
             THEN start' = [start EXCEPT !.pc = "watch"] /\ watchers' = WatchFile
             ELSE /\ start' = [pc |-> "load", cfg |-> manifest, idx |-> 1]
                  /\ UNCHANGED watchers
  /\ UNCHANGED <<manifest, fs, rootExists, isWatching, notifs, passes, nPasses,
                 calls, callsLeft, ret, events, clock, faults, nextUid>>

\* createEmptyConfig: the write of an empty manifest.  When it fails the
\* error leaves loadAllPlugins' catch block and start() rethrows it.
StMkCfg ==
  /\ start.pc = "mkcfg"
  /\ \E ok \in Outcomes :
       IF ok
       THEN /\ manifest' = <<>>
            /\ watchers' = WatchFile
            /\ start' = [start EXCEPT !.pc = "watch"]
            /\ UNCHANGED faults
       ELSE /\ faults' = faults + 1
            /\ start' = [start EXCEPT !.pc = "failed"]
            /\ UNCHANGED <<manifest, watchers>>
  /\ UNCHANGED <<fs, rootExists, loadedPlugins, isWatching, notifs, passes,
                 nPasses, calls, callsLeft, ret, events, clock, nextUid>>

\* loadAllPlugins, one iteration: loadPlugin of the next entry.
StLoad ==
  /\ start.pc = "load"
  /\ LET entry == start.cfg[start.idx]
         last == start.idx = Len(start.cfg)
     IN  /\ loadedPlugins' = Put(loadedPlugins, entry.id, PluginInfo(entry))
         /\ events' = events \o LoadEvents(entry, 0)
         /\ start' = IF last THEN [pc |-> "watch", cfg |-> <<>>, idx |-> 0]
                     ELSE [start EXCEPT !.idx = @ + 1]
         /\ watchers' = IF last THEN WatchFile ELSE watchers
  /\ UNCHANGED <<manifest, fs, rootExists, isWatching, notifs, passes, nPasses,
                 calls, callsLeft, ret, clock, faults, nextUid>>

\* startWatching after fs.access of generated/: the directory watcher is
\* created when the directory exists; start() then sets isWatching and
\* emits system-started.
StWatch ==
  /\ start.pc = "watch"
  /\ watchers' = IF rootExists THEN Register(watchers, "generated-modules") ELSE watchers
  /\ isWatching' = TRUE
  /\ events' = Append(events, Event("system-started", "system", "", NoRec, 0))
  /\ start' = [start EXCEPT !.pc = "running"]
  /\ UNCHANGED <<manifest, fs, rootExists, loadedPlugins, notifs, passes, nPasses,
                 calls, callsLeft, ret, clock, faults, nextUid>>

(* -------------------- PluginHotReload.handleConfigChange --------------- *)

\* A run of handleConfigChange: its position, config.plugins as read, the
\* index of the entry whose loadPlugin is awaited, whether that entry's id
\* was known (upd), previousPlugins (prev) and the ids whose record prev
\* still shares with the table (alias).  ld records, for the properties, the
\* ids the run loaded from an enabled entry whose path existed.
IdlePass == [pc |-> "idle", cfg |-> <<>>, idx |-> 0, upd |-> FALSE,
             prev |-> EmptyFn, alias |-> {}, ld |-> {}]
DonePass == [IdlePass EXCEPT !.pc = "done"]

\* A handleConfigChange that never finds a known id changed.
HasChangesNever(existing, plugin) == FALSE

\* existingPlugin is missing, or hasChanges
HasChanges(existing, plugin) ==
  existing.enabled # plugin.enabled \/ existing.meta # plugin.meta
NeedsLoad(tbl, plugin) ==
  plugin.id \notin DOMAIN tbl \/ HasChanges(tbl[plugin.id], plugin)

\* The first entry from index i on that the loop awaits loadPlugin for;
\* Len(cfg) + 1 when the loop ends without another await.
RECURSIVE ScanFrom(_, _, _)
ScanFrom(cfg, i, tbl) ==
  IF i > Len(cfg) THEN i
  ELSE IF NeedsLoad(tbl, cfg[i]) THEN i
  ELSE ScanFrom(cfg, i + 1, tbl)

Orders(S) == {o \in [1..Cardinality(S) -> S] :
                \A i, j \in 1..Cardinality(S) : i # j => o[i] # o[j]}

\* The second loop: the ids of the snapshot that the manifest no longer
\* has, in the snapshot's iteration order o.
RemovedIds(prev, cfg) == DOMAIN prev \ Ids(cfg)
RemovalTable(tbl, prev, cfg) ==
  [x \in DOMAIN tbl \ RemovedIds(prev, cfg) |-> tbl[x]]
RemovalEvents(prev, o, by) ==
  [i \in 1..Len(o) |-> Event("plugin-removed", "removed", o[i], prev[o[i]], by)]

\* A handleConfigChange whose removal loop ran ahead of its load loop would
\* emit in this order.
PassEventsRemovalFirst(loadEvents, removalEvents) == removalEvents \o loadEvents

\* handleConfigChange runs its first loop (loadPlugin, 'plugin-loaded',
\* 'plugin-updated') to the end before its second ('plugin-removed').
PassEvents(loadEvents, removalEvents) == loadEvents \o removalEvents

LoadedEnabled(plugin) ==
  IF plugin.enabled /\ PathExists(plugin.id) THEN {plugin.id} ELSE {}

\* A loadPlugin of id replaced the table's record: the snapshots of the
\* other runs, and the togglePlugin calls in flight for id, no longer share
\* the object the table holds.
Unalias(P, id) == [q \in DOMAIN P |-> [P[q] EXCEPT !.alias = @ \ {id}]]
Unlive(C, id) ==
  [c \in DOMAIN C |->
     IF C[c].op = "togglePlugin" /\ C[c].id = id
     THEN [C[c] EXCEPT !.live = FALSE] ELSE C[c]]

\* A JSON.parse that takes whatever readFile returned for a manifest.
ParsesAnything(m) == TRUE

\* readFile and JSON.parse of plugins.json succeed.
Parses(m) == m # Bad

\* The watcher's callback: handleConfigChange reads plugins.json, copies
\* the table, and runs the first loop up to its first await of loadPlugin;
\* with none, the second loop runs at once.  A manifest that cannot be read
\* or parsed ends the run in the catch block.
HcRead(p) ==
  /\ notifs > 0
  /\ "config" \in watchers
  /\ p = nPasses + 1
  /\ p \in DOMAIN passes
  /\ notifs' = notifs - 1
  /\ nPasses' = p
  /\ IF ~Parses(manifest)
     THEN /\ passes' = [passes EXCEPT ![p] = DonePass]
          /\ UNCHANGED <<loadedPlugins, events>>
     ELSE LET cfg == manifest
              j == ScanFrom(cfg, 1, loadedPlugins)
          IN  IF j <= Len(cfg)
              THEN /\ passes' = [passes EXCEPT ![p] =
                        [pc |-> "load", cfg |-> cfg, idx |-> j,
                         upd |-> cfg[j].id \in DOMAIN loadedPlugins,
                         prev |-> loadedPlugins, alias |-> DOMAIN loadedPlugins,
                         ld |-> {}]]
                   /\ UNCHANGED <<loadedPlugins, events>>
              ELSE \E o \in Orders(RemovedIds(loadedPlugins, cfg)) :
                     /\ passes' = [passes EXCEPT ![p] = DonePass]
                     /\ loadedPlugins' = RemovalTable(loadedPlugins, loadedPlugins, cfg)
                     /\ events' = events \o PassEvents(<<>>, RemovalEvents(loadedPlugins, o, p))
  /\ UNCHANGED <<manifest, fs, rootExists, watchers, isWatching, start, calls,
                 callsLeft, ret, clock, faults, nextUid>>

\* The first loop after an awaited loadPlugin: the record is stored,
\* 'plugin-loaded' is emitted when it is enabled, 'plugin-updated' when the
\* id was known; the loop goes on to its next await, or the second loop runs.
HcLoad(p) ==
  /\ passes[p].pc = "load"
  /\ LET me == passes[p]
         plugin == me.cfg[me.idx]
         tbl == Put(loadedPlugins, plugin.id, PluginInfo(plugin))
         evs == LoadEvents(plugin, p) \o
                (IF me.upd
                 THEN <<Event("plugin-updated", "updated", plugin.id, tbl[plugin.id], p)>>
                 ELSE <<>>)
         j == ScanFrom(me.cfg, me.idx + 1, tbl)
         others == Unalias(passes, plugin.id)
     IN  /\ calls' = Unlive(calls, plugin.id)
         /\ IF j <= Len(me.cfg)
            THEN /\ passes' = [others EXCEPT ![p] =
                      [others[p] EXCEPT !.idx = j, !.upd = me.cfg[j].id \in DOMAIN tbl,
                         !.ld = @ \cup LoadedEnabled(plugin)]]
                 /\ loadedPlugins' = tbl
                 /\ events' = events \o evs
            ELSE \E o \in Orders(RemovedIds(me.prev, me.cfg)) :
                   /\ passes' = [others EXCEPT ![p] = DonePass]
                   /\ loadedPlugins' = RemovalTable(tbl, me.prev, me.cfg)
                   /\ events' = events \o PassEvents(evs, RemovalEvents(me.prev, o, p))
  /\ UNCHANGED <<manifest, fs, rootExists, watchers, isWatching, notifs, start,
                 nPasses, callsLeft, ret, clock, faults, nextUid>>

(* ------------------------------ API calls ----------------------------- *)

\* A call in flight: the operation and its arguments, its position, and its
\* locals.  The other fields record the call for the properties: unk, reg and
\* quiet how it began, alone whether no other call ran beside it, bad
\* the place of the first invalid file of its payload (0: none), evs the events it emitted, fault
\* whether one of its writes failed, wfs and wman whether it wrote below
\* generated/ and to plugins.json, was the table as a togglePlugin found it.
IdleCall ==
  [op |-> "none", pc |-> "idle", id |-> "", en |-> FALSE, cfg |-> <<>>,
   ent |-> Entry("", FALSE, 0), files |-> <<>>, wl |-> <<>>, wi |-> 0,
   uid |-> 0, stamp |-> 0, plug |-> NoRec, live |-> FALSE, was |-> EmptyFn,
   unk |-> FALSE, reg |-> FALSE, quiet |-> FALSE, alone |-> FALSE,
   evs |-> <<>>, fault |-> FALSE, bad |-> 0, wfs |-> FALSE, wman |-> FALSE]

NoneInFlight == \A d \in DOMAIN calls : calls[d].op = "none"
Quiet == /\ NoneInFlight
         /\ \A q \in DOMAIN passes : passes[q].pc # "load"
         /\ notifs = 0

\* The lowest free slot takes the next call.
CanStart(c) ==
  /\ calls[c].op = "none"
  /\ callsLeft > 0
  /\ \A d \in 1..(c - 1) : calls[d].op # "none"

NewCall(op, pc, id, en) ==
  [IdleCall EXCEPT !.op = op, !.pc = pc, !.id = id, !.en = en,
     !.unk = id \notin DOMAIN loadedPlugins /\ id \notin ManifestIds,
     !.reg = id \in DOMAIN loadedPlugins /\ id \in ManifestIds,
     !.quiet = Quiet, !.alone = NoneInFlight]

\* The calls in flight see another call begin.
Beside(C) ==
  [d \in DOMAIN C |-> IF C[d].op = "none" THEN C[d] ELSE [C[d] EXCEPT !.alone = FALSE]]

Returned(rec, res, got) ==
  [n |-> ret.n + 1, op |-> rec.op, id |-> rec.id, en |-> rec.en, res |-> res,
   files |-> rec.files, got |-> got, uid |-> rec.uid, evs |-> rec.evs,
   unk |-> rec.unk, reg |-> rec.reg, quiet |-> rec.quiet, alone |-> rec.alone,
   fault |-> rec.fault, bad |-> rec.bad, wfs |-> rec.wfs, wman |-> rec.wman,
   was |-> rec.was]

NoReturn ==
  [n |-> 0, op |-> "none", id |-> "", en |-> FALSE, res |-> FALSE, files |-> <<>>,
   got |-> {}, uid |-> 0, evs |-> <<>>, unk |-> FALSE, reg |-> FALSE,
   quiet |-> FALSE, alone |-> FALSE, fault |-> FALSE, bad |-> 0,
   wfs |-> FALSE, wman |-> FALSE, was |-> EmptyFn]

\* A call that begins and goes on to its first await.
Begin(c, rec) ==
  /\ calls' = [Beside(calls) EXCEPT ![c] = rec]
  /\ callsLeft' = callsLeft - 1
  /\ UNCHANGED ret

\* A call that returns in the segment it began in.
BeginReturn(rec, res, got) ==
  /\ calls' = Beside(calls)
  /\ callsLeft' = callsLeft - 1
  /\ ret' = Returned(rec, res, got)

\* A call in flight returns.
Return(C, c, rec, res, got) ==
  /\ calls' = [C EXCEPT ![c] = IdleCall]
  /\ ret' = Returned(rec, res, got)
  /\ UNCHANGED callsLeft

(* ----------------------- PluginHotReload.togglePlugin ----------------- *)

\* plugin.enabled = enabled writes to the object the table holds: the
\* snapshots and the locals that share the object see it.
AliasedPasses(id, en) ==
  [q \in DOMAIN passes |->
     IF id \in passes[q].alias
     THEN [passes[q] EXCEPT !.prev = [@ EXCEPT ![id].enabled = en]]
     ELSE passes[q]]
AliasedCalls(C, id, en) ==
  [d \in DOMAIN C |->
     IF C[d].op = "togglePlugin" /\ C[d].id = id /\ C[d].live
     THEN [C[d] EXCEPT !.plug = [@ EXCEPT !.enabled = en]] ELSE C[d]]

ToggledEvent(rec) ==
  Event("plugin-toggled", IF rec.en THEN "enabled" ELSE "disabled", rec.id, rec.plug, 0)

\* plugin.enabled = !plugin.enabled: a toggle that flips instead of setting.
FlipEnabled(plugin, enabled) == [plugin EXCEPT !.enabled = ~plugin.enabled]

\* plugin.enabled = enabled
SetEnabled(plugin, enabled) == [plugin EXCEPT !.enabled = enabled]

\* A togglePlugin with no lookup guard, which makes a record for an id the
\* table lacks and goes on as for a known one.
TpStartUpsert(c, id, en) ==
  /\ CanStart(c)
  /\ LET old == IF id \in DOMAIN loadedPlugins THEN loadedPlugins[id] ELSE NoRec
     IN  /\ loadedPlugins' = Put(loadedPlugins, id, SetEnabled(old, en))
         /\ passes' = AliasedPasses(id, en)
         /\ calls' = [Beside(AliasedCalls(calls, id, en)) EXCEPT ![c] =
                        [NewCall("togglePlugin", "read", id, en) EXCEPT
                           !.plug = SetEnabled(old, en), !.live = TRUE]]
         /\ callsLeft' = callsLeft - 1
         /\ UNCHANGED ret
  /\ UNCHANGED <<manifest, fs, rootExists, watchers, isWatching, notifs, start,
                 nPasses, events, clock, faults, nextUid>>

\* togglePlugin up to its first await: an id the table lacks returns false;
\* otherwise the record's enabled is set and plugins.json is read.
TpStart(c, id, en) ==
  /\ CanStart(c)
  /\ IF id \notin DOMAIN loadedPlugins
     THEN /\ BeginReturn([NewCall("togglePlugin", "idle", id, en) EXCEPT
                             !.was = loadedPlugins], FALSE, {})
          /\ UNCHANGED <<loadedPlugins, passes>>
     ELSE /\ loadedPlugins' = [loadedPlugins EXCEPT ![id] = SetEnabled(@, en)]
          /\ passes' = AliasedPasses(id, en)
          /\ calls' = [Beside(AliasedCalls(calls, id, en)) EXCEPT ![c] =
                         [NewCall("togglePlugin", "read", id, en) EXCEPT
                            !.plug = SetEnabled(loadedPlugins[id], en),
                            !.live = TRUE, !.was = loadedPlugins]]
          /\ callsLeft' = callsLeft - 1
          /\ UNCHANGED ret
  /\ UNCHANGED <<manifest, fs, rootExists, watchers, isWatching, notifs, start,
                 nPasses, events, clock, faults, nextUid>>

\* togglePlugin after the read of plugins.json: a manifest that cannot be
\* read or parsed returns false from the catch block; an entry of the id is
\* changed and the manifest written; with no entry nothing is written, the
\* event is emitted and the call returns true.
TpRead(c) ==
  /\ calls[c].op = "togglePlugin" /\ calls[c].pc = "read"
  /\ LET me == calls[c]
     IN  IF manifest = Bad
         THEN /\ Return(calls, c, me, FALSE, {})
              /\ UNCHANGED events
         ELSE IF HasEntry(manifest, me.id)
         THEN /\ calls' = [calls EXCEPT ![c] =
                   [me EXCEPT !.pc = "write",
                      !.cfg = [manifest EXCEPT ![FindIndex(manifest, me.id)].enabled = me.en]]]
              /\ UNCHANGED <<ret, callsLeft, events>>
         ELSE /\ events' = Append(events, ToggledEvent(me))
              /\ Return(calls, c, [me EXCEPT !.evs = <<ToggledEvent(me)>>], TRUE, {})
  /\ UNCHANGED <<manifest, fs, rootExists, loadedPlugins, watchers, isWatching,
                 notifs, start, passes, nPasses, clock, faults, nextUid>>

\* togglePlugin after the write of plugins.json: the event is emitted and
\* the call returns true; a failed write returns false from the catch block.
TpWrite(c) ==
  /\ calls[c].op = "togglePlugin" /\ calls[c].pc = "write"
  /\ LET me == calls[c]
     IN  \E ok \in Outcomes :
           IF ok
           THEN /\ manifest' = me.cfg
                /\ notifs' = Notified
                /\ events' = Append(events, ToggledEvent(me))
                /\ Return(calls, c, [me EXCEPT !.evs = <<ToggledEvent(me)>>, !.wman = TRUE],
                          TRUE, {})
                /\ UNCHANGED faults
           ELSE /\ faults' = faults + 1
                /\ Return(calls, c, [me EXCEPT !.fault = TRUE], FALSE, {})
                /\ UNCHANGED <<manifest, notifs, events>>
  /\ UNCHANGED <<fs, rootExists, loadedPlugins, watchers, isWatching, start,
                 passes, nPasses, clock, nextUid>>

(* ----------------------- PluginHotReload.reloadPlugin ----------------- *)

\* reloadPlugin after the read of plugins.json: a manifest that cannot be
\* read or parsed, or that has no entry of the id, returns false; otherwise
\* loadPlugin is awaited for the entry.
RpRead(c, id) ==
  /\ CanStart(c)
  /\ IF manifest = Bad \/ ~HasEntry(manifest, id)
     THEN BeginReturn(NewCall("reloadPlugin", "idle", id, FALSE), FALSE, {})
     ELSE Begin(c, [NewCall("reloadPlugin", "load", id, FALSE) EXCEPT
                      !.ent = manifest[FindIndex(manifest, id)]])
  /\ UNCHANGED <<manifest, fs, rootExists, loadedPlugins, watchers, isWatching,
                 notifs, start, passes, nPasses, events, clock, faults, nextUid>>

\* reloadPlugin after loadPlugin: the record is stored, 'plugin-loaded' is
\* emitted when it is enabled, then 'plugin-reloaded', and the call returns
\* true.
RpLoad(c) ==
  /\ calls[c].op = "reloadPlugin" /\ calls[c].pc = "load"
  /\ LET me == calls[c]
         tbl == Put(loadedPlugins, me.id, PluginInfo(me.ent))
         evs == LoadEvents(me.ent, 0) \o
                <<Event("plugin-reloaded", "updated", me.id, tbl[me.id], 0)>>
     IN  /\ loadedPlugins' = tbl
         /\ passes' = Unalias(passes, me.id)
         /\ events' = events \o evs
         /\ Return(Unlive(calls, me.id), c, [me EXCEPT !.evs = evs], TRUE, {})
  /\ UNCHANGED <<manifest, fs, rootExists, watchers, isWatching, notifs, start,
                 nPasses, clock, faults, nextUid>>

(* ----------------------- ModuleCreator.createModule ------------------- *)

\* A createModule payload: moduleData.slug and moduleData.files.
Payload(slug, files) == [slug |-> slug, files |-> files]

\* The place of the first file of a payload with no path or no content.
FirstBad(files) ==
  LET badAt == {i \in 1..Len(files) :
                  files[i].path = NoPath \/ files[i].content = NoContent}
  IN  IF badAt = {} THEN 0 ELSE CHOOSE i \in badAt : \A j \in badAt : i <= j

\* createModule up to writeModuleToFileSystem's first await: the files
\* are validated and processed, the required files added; an invalid file
\* throws before anything is written.
CmStart(c, payload) ==
  /\ CanStart(c)
  /\ LET r == processModuleFiles(payload.files)
         new == [NewCall("createModule", "mkdir", payload.slug, TRUE) EXCEPT
                   !.bad = FirstBad(payload.files)]
     IN  IF ~r.ok
         THEN BeginReturn(new, FALSE, {}) /\ UNCHANGED nextUid
         ELSE /\ Begin(c, [new EXCEPT !.files = r.files, !.uid = nextUid,
                             !.stamp = clock,
                             !.wl = WriteList(r.files, nextUid, clock)])
              /\ nextUid' = nextUid + 1
  /\ UNCHANGED <<manifest, fs, rootExists, loadedPlugins, watchers, isWatching,
                 notifs, start, passes, nPasses, events, clock, faults>>

\* writeModuleToFileSystem: mkdir of generated/<slug>, recursively.
CmMkdir(c) ==
  /\ calls[c].op = "createModule" /\ calls[c].pc = "mkdir"
  /\ LET me == calls[c]
     IN  \E ok \in Outcomes :
           IF ok
           THEN /\ fs' = IF me.id \in DOMAIN fs THEN fs ELSE Put(fs, me.id, EmptyFn)
                /\ rootExists' = TRUE
                /\ calls' = [calls EXCEPT ![c] =
                               [me EXCEPT !.pc = "write", !.wi = 1, !.wfs = TRUE]]
                /\ UNCHANGED <<ret, callsLeft, faults>>
           ELSE /\ faults' = faults + 1
                /\ Return(calls, c, [me EXCEPT !.fault = TRUE, !.files = <<>>], FALSE, {})
                /\ UNCHANGED <<fs, rootExists>>
  /\ UNCHANGED <<manifest, loadedPlugins, watchers, isWatching, notifs, start,
                 passes, nPasses, events, clock, nextUid>>

\* A writeModuleToFileSystem that catches the error of a failed write and
\* goes on with the next one.
CmWriteFileSwallow(c) ==
  /\ calls[c].op = "createModule" /\ calls[c].pc = "write"
  /\ LET me == calls[c]
         w == me.wl[me.wi]
         tgt == IF w.into = "." THEN me.id ELSE w.into
         dir == IF tgt \in DOMAIN fs THEN fs[tgt] ELSE EmptyFn
         next == IF me.wi = Len(me.wl) THEN [me EXCEPT !.pc = "regread"]
                 ELSE [me EXCEPT !.wi = @ + 1]
     IN  \E ok \in Outcomes :
           IF ok
           THEN /\ fs' = Put(fs, tgt, Put(dir, w.path, w.text))
                /\ rootExists' = TRUE
                /\ calls' = [calls EXCEPT ![c] = [next EXCEPT !.wfs = TRUE]]
                /\ UNCHANGED <<ret, callsLeft, faults>>
           ELSE /\ faults' = faults + 1
                /\ calls' = [calls EXCEPT ![c] = [next EXCEPT !.fault = TRUE]]
                /\ UNCHANGED <<fs, rootExists, ret, callsLeft>>
  /\ UNCHANGED <<manifest, loadedPlugins, watchers, isWatching, notifs, start,
                 passes, nPasses, events, clock, nextUid>>

\* writeModuleToFileSystem, one write: a module file after the recursive
\* mkdir of its directory, then plugin.json, then module-metadata.json.
\* The last two have no mkdir and fail when the directory is gone.
CmWriteFile(c) ==
  /\ calls[c].op = "createModule" /\ calls[c].pc = "write"
  /\ LET me == calls[c]
         w == me.wl[me.wi]
         isFile == me.wi <= Len(me.files)
         tgt == IF w.into = "." THEN me.id ELSE w.into
         dir == IF tgt \in DOMAIN fs THEN fs[tgt] ELSE EmptyFn
     IN  \E ok \in Outcomes :
           IF ok /\ (isFile \/ me.id \in DOMAIN fs)
           THEN /\ fs' = Put(fs, tgt, Put(dir, w.path, w.text))
                /\ rootExists' = TRUE
                /\ calls' = [calls EXCEPT ![c] =
                               IF me.wi = Len(me.wl)
                               THEN [me EXCEPT !.pc = "regread", !.wfs = TRUE]
                               ELSE [me EXCEPT !.wi = @ + 1, !.wfs = TRUE]]
                /\ UNCHANGED <<ret, callsLeft, faults>>
           ELSE /\ faults' = IF ok THEN faults ELSE faults + 1
                /\ Return(calls, c, [me EXCEPT !.fault = ~ok, !.files = <<>>], FALSE, {})
                /\ UNCHANGED <<fs, rootExists>>
  /\ UNCHANGED <<manifest, loadedPlugins, watchers, isWatching, notifs, start,
                 passes, nPasses, events, clock, nextUid>>

\* The entry updatePluginsRegistry builds for the module.
NewPlugin(me) == Entry(me.id, TRUE, me.stamp)

\* An updatePluginsRegistry that writes a manifest of the new entry alone.
updatePluginsRegistryAlone(me) == <<NewPlugin(me)>>

\* An updatePluginsRegistry that pushes the entry without filtering first.
updatePluginsRegistryPushOnly(me) ==
  Append(IF manifest = Bad THEN <<>> ELSE manifest, NewPlugin(me))

\* ModuleCreator.updatePluginsRegistry after the read of plugins.json: a
\* manifest that cannot be read or parsed counts as {plugins: []}; the entry
\* of the slug is filtered out and the new one pushed.
updatePluginsRegistry(me) ==
  Append(FilterOut(IF manifest = Bad THEN <<>> ELSE manifest, me.id), NewPlugin(me))

CmRegRead(c) ==
  /\ calls[c].op = "createModule" /\ calls[c].pc = "regread"
  /\ calls' = [calls EXCEPT ![c] =
                 [calls[c] EXCEPT !.pc = "regwrite", !.cfg = updatePluginsRegistry(calls[c])]]
  /\ UNCHANGED <<manifest, fs, rootExists, loadedPlugins, watchers, isWatching,
                 notifs, start, passes, nPasses, callsLeft, ret, events, clock,
                 faults, nextUid>>

\* updatePluginsRegistry after the write of plugins.json: createModule
\* returns the module; a failed write is rethrown.
CmRegWrite(c) ==
  /\ calls[c].op = "createModule" /\ calls[c].pc = "regwrite"
  /\ LET me == calls[c]
     IN  \E ok \in Outcomes :
           IF ok
           THEN /\ manifest' = me.cfg
                /\ notifs' = Notified
                /\ Return(calls, c, [me EXCEPT !.wman = TRUE], TRUE, {})
                /\ UNCHANGED faults
           ELSE /\ faults' = faults + 1
                /\ Return(calls, c, [me EXCEPT !.fault = TRUE, !.files = <<>>], FALSE, {})
                /\ UNCHANGED <<manifest, notifs>>
  /\ UNCHANGED <<fs, rootExists, loadedPlugins, watchers, isWatching, start,
                 passes, nPasses, events, clock, nextUid>>

(* ----------------------- ModuleCreator.deleteModule ------------------- *)

\* deleteModule after fs.access of generated/<slug>: a missing directory
\* returns false.
DmAccess(c, slug) ==
  /\ CanStart(c)
  /\ IF slug \notin DOMAIN fs
     THEN BeginReturn(NewCall("deleteModule", "idle", slug, FALSE), FALSE, {})
     ELSE Begin(c, NewCall("deleteModule", "rm", slug, FALSE))
  /\ UNCHANGED <<manifest, fs, rootExists, loadedPlugins, watchers, isWatching,
                 notifs, start, passes, nPasses, events, clock, faults, nextUid>>

\* deleteModule after fs.rm of the directory; a failed rm returns false.
DmRm(c) ==
  /\ calls[c].op = "deleteModule" /\ calls[c].pc = "rm"
  /\ LET me == calls[c]
     IN  \E ok \in Outcomes :
           IF ok
           THEN /\ fs' = Drop(fs, me.id)
                /\ calls' = [calls EXCEPT ![c] = [me EXCEPT !.pc = "regread", !.wfs = TRUE]]
                /\ UNCHANGED <<ret, callsLeft, faults>>
           ELSE /\ faults' = faults + 1
                /\ Return(calls, c, [me EXCEPT !.fault = TRUE], FALSE, {})
                /\ UNCHANGED fs
  /\ UNCHANGED <<manifest, rootExists, loadedPlugins, watchers, isWatching,
                 notifs, start, passes, nPasses, events, clock, nextUid>>

\* ModuleCreator.removeFromPluginsRegistry after the read of plugins.json:
\* an error is logged and swallowed, and deleteModule returns true.
DmRegRead(c) ==
  /\ calls[c].op = "deleteModule" /\ calls[c].pc = "regread"
  /\ LET me == calls[c]
     IN  IF manifest = Bad
         THEN Return(calls, c, me, TRUE, {})
         ELSE /\ calls' = [calls EXCEPT ![c] =
                   [me EXCEPT !.pc = "regwrite", !.cfg = FilterOut(manifest, me.id)]]
              /\ UNCHANGED <<ret, callsLeft>>
  /\ UNCHANGED <<manifest, fs, rootExists, loadedPlugins, watchers, isWatching,
                 notifs, start, passes, nPasses, events, clock, faults, nextUid>>

\* removeFromPluginsRegistry after the write of plugins.json: a failed
\* write is logged and swallowed too.
DmRegWrite(c) ==
  /\ calls[c].op = "deleteModule" /\ calls[c].pc = "regwrite"
  /\ LET me == calls[c]
     IN  \E ok \in Outcomes :
           IF ok
           THEN /\ manifest' = me.cfg
                /\ notifs' = Notified
                /\ Return(calls, c, [me EXCEPT !.wman = TRUE], TRUE, {})
                /\ UNCHANGED faults
           ELSE /\ faults' = faults + 1
                /\ Return(calls, c, [me EXCEPT !.fault = TRUE], TRUE, {})
                /\ UNCHANGED <<manifest, notifs>>
  /\ UNCHANGED <<fs, rootExists, loadedPlugins, watchers, isWatching, start,
                 passes, nPasses, events, clock, nextUid>>

(* -------------------- ModuleCreator.toggleModuleStatus ---------------- *)

\* toggleModuleStatus after the read of plugins.json: a manifest that
\* cannot be read or parsed, or that has no entry of the slug, returns false.
TsRead(c, slug, en) ==
  /\ CanStart(c)
  /\ IF manifest = Bad \/ ~HasEntry(manifest, slug)
     THEN BeginReturn(NewCall("toggleModuleStatus", "idle", slug, en), FALSE, {})
     ELSE Begin(c, [NewCall("toggleModuleStatus", "write", slug, en) EXCEPT
                      !.cfg = [manifest EXCEPT ![FindIndex(manifest, slug)].enabled = en]])
  /\ UNCHANGED <<manifest, fs, rootExists, loadedPlugins, watchers, isWatching,
                 notifs, start, passes, nPasses, events, clock, faults, nextUid>>

\* toggleModuleStatus after the write of plugins.json.
TsWrite(c) ==
  /\ calls[c].op = "toggleModuleStatus" /\ calls[c].pc = "write"
  /\ LET me == calls[c]
     IN  \E ok \in Outcomes :
           IF ok
           THEN /\ manifest' = me.cfg
                /\ notifs' = Notified
                /\ Return(calls, c, [me EXCEPT !.wman = TRUE], TRUE, {})
                /\ UNCHANGED faults
           ELSE /\ faults' = faults + 1
                /\ Return(calls, c, [me EXCEPT !.fault = TRUE], FALSE, {})
                /\ UNCHANGED <<manifest, notifs>>
  /\ UNCHANGED <<fs, rootExists, loadedPlugins, watchers, isWatching, start,
                 passes, nPasses, events, clock, nextUid>>

(* ------------------------ ModuleCreator.getModule --------------------- *)

\* What getModule reads: module-metadata.json, the files of the directory,
\* and plugin.json.  FALSE stands for the null it returns when a read fails.
ModuleOnDisk(slug) ==
  /\ slug \in DOMAIN fs
  /\ {"module-metadata.json", "plugin.json"} \subseteq DOMAIN fs[slug]

\* getModule: null, or the module with the id of module-metadata.json and
\* the files loadModuleFiles finds.
GmRead(c, slug) ==
  /\ CanStart(c)
  /\ LET new == NewCall("getModule", "idle", slug, FALSE)
     IN  IF ModuleOnDisk(slug)
         THEN BeginReturn([new EXCEPT !.uid = fs[slug]["module-metadata.json"].uid],
                          TRUE, loadModuleFiles(fs[slug]))
         ELSE BeginReturn(new, FALSE, {})
  /\ UNCHANGED <<manifest, fs, rootExists, loadedPlugins, watchers, isWatching,
                 notifs, start, passes, nPasses, events, clock, faults, nextUid>>

(* ------------------------------ the clock ----------------------------- *)

Tick ==
  /\ clock < MaxClock
  /\ clock' = clock + 1
  /\ UNCHANGED <<manifest, fs, rootExists, loadedPlugins, watchers, isWatching,
                 notifs, start, passes, nPasses, calls, callsLeft, ret, events,
                 faults, nextUid>>

(* --------------------------- specifications --------------------------- *)

RawFile(p, c, t) == [path |-> p, content |-> c, type |-> t]

\* The directory a list of writes leaves behind.
RECURSIVE Written(_, _)
Written(dir, wl) ==
  IF wl = <<>> THEN dir
  ELSE Written(Put(dir, Head(wl).path, Head(wl).text), Tail(wl))

\* What the engine's callers generate: the one-component module of
\* GeminiClient.generateModule.
EngineFiles == <<RawFile("component.tsx", "code", "component")>>
EnginePayloads == {Payload(s, EngineFiles) : s \in Slugs}

\* The module directory of a module created earlier (id 0, at time 0).
EarlierModule == Written(EmptyFn, WriteList(processModuleFiles(EngineFiles).files, 0, 0))

\* The disk before the process starts: a manifest with module a and its
\* directory, the same manifest with the directory gone, or no manifest.
InitDisk ==
  \/ manifest = <<Entry("a", TRUE, 0)>> /\ fs = Put(EmptyFn, "a", EarlierModule)
  \/ manifest = <<Entry("a", TRUE, 0)>> /\ fs = EmptyFn
  \/ manifest = Bad /\ fs = EmptyFn

InitProcess ==
  /\ rootExists = (fs # EmptyFn)
  /\ loadedPlugins = EmptyFn
  /\ watchers = {}
  /\ isWatching = FALSE
  /\ notifs = 0
  /\ start = [pc |-> "new", cfg |-> <<>>, idx |-> 0]
  /\ passes = [p \in 1..MaxCalls |-> IdlePass]
  /\ nPasses = 0
  /\ calls = [c \in 1..MaxInFlight |-> IdleCall]
  /\ ret = NoReturn
  /\ events = <<>>
  /\ clock = 0
  /\ faults = 0
  /\ nextUid = 1

Init == InitDisk /\ InitProcess /\ callsLeft = MaxCalls

Running == start.pc = "running"

Next ==
  \/ StRead
  \/ StMkCfg
  \/ StLoad
  \/ StWatch
  \/ \E p \in DOMAIN passes : HcRead(p)
  \/ \E p \in DOMAIN passes : HcLoad(p)
  \/ Running /\ \E c \in DOMAIN calls, id \in Slugs, en \in BOOLEAN : TpStart(c, id, en)
  \/ \E c \in DOMAIN calls : TpRead(c)
  \/ \E c \in DOMAIN calls : TpWrite(c)
  \/ Running /\ \E c \in DOMAIN calls, id \in Slugs : RpRead(c, id)
  \/ \E c \in DOMAIN calls : RpLoad(c)
  \/ Running /\ \E c \in DOMAIN calls, pl \in EnginePayloads : CmStart(c, pl)
  \/ \E c \in DOMAIN calls : CmMkdir(c)
  \/ \E c \in DOMAIN calls : CmWriteFile(c)
  \/ \E c \in DOMAIN calls : CmRegRead(c)
  \/ \E c \in DOMAIN calls : CmRegWrite(c)
  \/ Running /\ \E c \in DOMAIN calls, id \in Slugs : DmAccess(c, id)
  \/ \E c \in DOMAIN calls : DmRm(c)
  \/ \E c \in DOMAIN calls : DmRegRead(c)
  \/ \E c \in DOMAIN calls : DmRegWrite(c)
  \/ Running /\ \E c \in DOMAIN calls, id \in Slugs, en \in BOOLEAN : TsRead(c, id, en)
  \/ \E c \in DOMAIN calls : TsWrite(c)
  \/ Running /\ \E c \in DOMAIN calls, id \in Slugs : GmRead(c, id)
  \/ Tick

Spec == Init /\ [][Next]_vars

(***************************************************************************)
(* The scaffolding on its own: ModuleCreator used without the engine, one  *)
(* call at a time.  createModule(a, payload) runs first, for every payload *)
(* of up to MaxFiles files, on a disk that has or has not an earlier       *)
(* module a; getModule(a) follows.                                         *)
(***************************************************************************)

ValidFiles ==
  {RawFile(p, c, t) : p \in PayloadPaths \ {NoPath}, c \in RawContents \ {NoContent},
                      t \in {NoType, "component"}}
InvalidFiles ==
  {RawFile(NoPath, "code", NoType), RawFile("component.tsx", NoContent, "component"),
   RawFile(NoPath, NoContent, NoType)}
ScaffoldFiles == ValidFiles \cup InvalidFiles
\* Payloads that bring their own entry point, dependency manifest and
\* description, each with or without an explicit type.
OwnRequiredFiles ==
  {<<RawFile("index.ts", "code", t1), RawFile("package.json", "code", t2),
     RawFile("README.md", "code", t3)>> : t1, t2, t3 \in {NoType, "component"}}
\* Payloads with a file whose path leaves the module's directory.
EscapingFiles ==
  {<<RawFile(EscapingPath, "code", NoType)>>,
   <<RawFile("component.tsx", "code", "component"), RawFile(EscapingPath, "rel", NoType)>>}
ScaffoldPayloads ==
  {Payload("a", fl) : fl \in UNION {[1..n -> ScaffoldFiles] : n \in 0..MaxFiles}
                            \cup OwnRequiredFiles \cup EscapingFiles}

InitScaffoldDisk ==
  \/ manifest = <<Entry("a", TRUE, 0)>> /\ fs = Put(EmptyFn, "a", EarlierModule)
  \/ /\ manifest = <<Entry("a", FALSE, 0), Entry("b", FALSE, 0)>>
     /\ fs = Put(EmptyFn, "a", EarlierModule)
  \/ manifest = <<Entry("b", FALSE, 0)>> /\ fs = EmptyFn
  \/ manifest = Bad /\ fs = EmptyFn

InitScaffold == InitScaffoldDisk /\ InitProcess /\ callsLeft = MaxScaffoldCalls

NextScaffold ==
  \/ NoneInFlight /\ ret.n = 0 /\ \E pl \in ScaffoldPayloads : CmStart(1, pl)
  \/ CmMkdir(1)
  \/ CmWriteFile(1)
  \/ CmRegRead(1)
  \/ CmRegWrite(1)
  \/ NoneInFlight /\ ret.n > 0 /\ GmRead(1, "a")

SpecScaffold == InitScaffold /\ [][NextScaffold]_vars

(***************************************************************************)
(* The engine's life cycle on its own: start(), stop(), start() again, and *)
(* changes of files below generated/, with no API call and with the disk   *)
(* left alone while start() runs.  callsLeft bounds what comes from        *)
(* outside: the calls of stop() and start() and the file changes.          *)
(***************************************************************************)

MaxLifeCalls == 3

\* The watchers map in insertion order.
WatcherOrder == <<"config", "generated-modules">>
InMap(i) == WatcherOrder[i] \in watchers \/ ClosedName(WatcherOrder[i]) \in watchers

\* stop(): the watchers are closed in the map's order, the map is cleared,
\* isWatching reset and system-stopped emitted.  A close() that raises
\* leaves the loop for the catch block, which only logs.
Stop ==
  /\ start.pc = "running"
  /\ callsLeft > 0
  /\ callsLeft' = callsLeft - 1
  /\ \/ /\ watchers' = {w \in watchers : \E i \in 1..Len(WatcherOrder) :
                                         w = UntrackedName(WatcherOrder[i])}
        /\ isWatching' = FALSE
        /\ events' = Append(events, Event("system-stopped", "system", "", NoRec, 0))
        /\ start' = [start EXCEPT !.pc = "stopped"]
        /\ UNCHANGED faults
     \/ \E i \in 1..Len(WatcherOrder) :
          /\ faults < MaxFaults
          /\ WatcherOrder[i] \in watchers
          /\ faults' = faults + 1
          /\ watchers' = (watchers \ {WatcherOrder[j] : j \in 1..(i - 1)})
                           \cup {ClosedName(WatcherOrder[j]) :
                                   j \in {k \in 1..(i - 1) : InMap(k)}}
          /\ UNCHANGED <<isWatching, events, start>>
  /\ UNCHANGED <<manifest, fs, rootExists, loadedPlugins, notifs, passes, nPasses,
                 calls, ret, clock, nextUid>>

\* start() is called again after stop().
Restart ==
  /\ start.pc = "stopped"
  /\ callsLeft > 0
  /\ callsLeft' = callsLeft - 1
  /\ start' = [pc |-> "new", cfg |-> <<>>, idx |-> 0]
  /\ UNCHANGED <<manifest, fs, rootExists, loadedPlugins, watchers, isWatching,
                 notifs, passes, nPasses, calls, ret, events, clock, faults, nextUid>>

\* While the engine is stopped the manifest is removed or damaged.
ManifestLost ==
  /\ start.pc = "stopped"
  /\ manifest # Bad
  /\ manifest' = Bad
  /\ UNCHANGED <<fs, rootExists, loadedPlugins, watchers, isWatching, notifs, start,
                 passes, nPasses, calls, callsLeft, ret, events, clock, faults, nextUid>>

\* plugin.path.includes(moduleName): the slugs stand for names none of
\* which is part of another one's path.
PathIncludes(id, moduleName) == id = moduleName

EditedFile(dir) ==
  LET old == IF "component.tsx" \in DOMAIN dir THEN dir["component.tsx"].body ELSE ""
  IN  Text("user", TRUE, IF old = "edit" THEN "code" ELSE "edit", <<>>, 0, 0)

\* generated/<slug>/component.tsx is written by someone, which creates the
\* directories it lacks.  The directory watcher, when there is one, calls
\* handleModuleChange: with a loaded plugin whose path has the module's
\* name it emits module-changed, and triggerFrontendReload emits
\* frontend-reload-required.
ModuleFileChanged(slug) ==
  /\ start.pc \in {"running", "stopped"}
  /\ callsLeft > 0
  /\ callsLeft' = callsLeft - 1
  /\ LET dir == IF slug \in DOMAIN fs THEN fs[slug] ELSE EmptyFn
     IN  fs' = Put(fs, slug, Put(dir, "component.tsx", EditedFile(dir)))
  /\ rootExists' = TRUE
  /\ LET found == {id \in DOMAIN loadedPlugins : PathIncludes(id, slug)}
     IN  IF "generated-modules" \in watchers /\ found # {}
         THEN LET id == CHOOSE x \in found : TRUE
              IN  events' = events \o
                    <<Event("module-changed", "updated", id, loadedPlugins[id], 0),
                      Event("frontend-reload-required", "frontend", id,
                            loadedPlugins[id], 0)>>
         ELSE UNCHANGED events
  /\ UNCHANGED <<manifest, loadedPlugins, watchers, isWatching, notifs, start,
                 passes, nPasses, calls, ret, clock, faults, nextUid>>

\* The disk before the first start(): two modules of which the second has
\* no directory; two modules, the second disabled; one module and no
\* generated/ at all; no manifest and no generated/.
InitLifeDisk ==
  \/ /\ manifest = <<Entry("a", TRUE, 0), Entry("b", TRUE, 0)>>
     /\ fs = Put(EmptyFn, "a", EarlierModule)
  \/ /\ manifest = <<Entry("a", TRUE, 0), Entry("b", FALSE, 0)>>
     /\ fs = Put(Put(EmptyFn, "a", EarlierModule), "b", EarlierModule)
  \/ manifest = <<Entry("a", TRUE, 0)>> /\ fs = EmptyFn
  \/ manifest = Bad /\ fs = EmptyFn

InitLife == InitLifeDisk /\ InitProcess /\ callsLeft = MaxLifeCalls

NextLife ==
  \/ StRead
  \/ StMkCfg
  \/ StLoad
  \/ StWatch
  \/ Stop
  \/ Restart
  \/ ManifestLost
  \/ \E s \in Slugs : ModuleFileChanged(s)
  \/ Tick

SpecLife == InitLife /\ [][NextLife]_vars

(***************************************************************************)
(* The life cycle with callers that do not wait for stop() before they     *)
(* call start() again.                                                     *)
(***************************************************************************)

\* start() is called on the engine that runs: nothing in start() looks at
\* isWatching or at the watchers map first.
StartAgain ==
  /\ start.pc = "running"
  /\ callsLeft > 0
  /\ callsLeft' = callsLeft - 1
  /\ start' = [pc |-> "new", cfg |-> <<>>, idx |-> 0]
  /\ UNCHANGED <<manifest, fs, rootExists, loadedPlugins, watchers, isWatching,
                 notifs, passes, nPasses, calls, ret, events, clock, faults, nextUid>>

NextTwice == NextLife \/ StartAgain

SpecTwice == InitLife /\ [][NextTwice]_vars

(***************************************************************************)
(* Sprint3Integration.generateModuleWithFallback: the integration service  *)
(* over the engine and the scaffolding, one request at a time.  The        *)
(* request's call is in slot 1 and the createModule it awaits in slot 2.   *)
(***************************************************************************)

\* Calls begun in one behaviour: the requests and their createModule.
MaxGenCalls == 4

\* initialize() sets isInitialized once hotReload.start() has returned;
\* nothing here shuts the system down.
isInitialized == start.pc = "running"

\* An event of the integration service's own emitter.
GenEvent(name) == Event(name, "generation", "", NoRec, 0)

\* What GeminiClient.generateModule resolves to: the one-component module,
\* or a module with a file of no content.
GeminiPayloads ==
  EnginePayloads \cup {Payload("b", <<RawFile("component.tsx", NoContent, "component")>>)}

\* fallbackModuleData: one component file under a slug made from the time.
FallbackPayloads == {Payload("b", EngineFiles)}

\* The catch block of generateModule: generation-failed is emitted and
\* {success: false} is returned, so the call does not throw.
generateModuleCatch(rec) ==
  [threw |-> FALSE, success |-> FALSE,
   rec |-> [rec EXCEPT !.evs = Append(@, GenEvent("generation-failed"))]]

\* generateModuleWithFallback after generateModule failed: its catch block,
\* which goes on to the fallback, runs when generateModule threw; otherwise
\* the result is returned as it is.  live marks the fallback.
GmwfFailed(c, out) ==
  IF out.threw
  THEN /\ calls' = [calls EXCEPT ![c] =
                      [out.rec EXCEPT !.pc = "create", !.live = TRUE, !.wi = ret.n]]
       /\ UNCHANGED ret
  ELSE Return(calls, c, out.rec, out.success, {})

\* generateModuleWithFallback up to the first await of generateModule: not
\* initialized, it fails at once; otherwise generation-started is emitted
\* and GeminiClient.generateModule awaited.
GmwfStart(c) ==
  /\ CanStart(c)
  /\ LET rec == NewCall("generateModuleWithFallback", "gemini", "", FALSE)
         out == generateModuleCatch(rec)
     IN  IF ~isInitialized
         THEN IF out.threw
              THEN Begin(c, [out.rec EXCEPT !.pc = "create", !.live = TRUE, !.wi = ret.n])
              ELSE BeginReturn(out.rec, out.success, {})
         ELSE Begin(c, [rec EXCEPT !.evs = <<GenEvent("generation-started")>>])
  /\ UNCHANGED <<manifest, fs, rootExists, loadedPlugins, watchers, isWatching,
                 notifs, start, passes, nPasses, events, clock, faults, nextUid>>

\* GeminiClient.generateModule resolved or rejected; resolved, createModule
\* is called next.  wi keeps the number of returns so far.
GmwfGemini(c) ==
  /\ calls[c].op = "generateModuleWithFallback" /\ calls[c].pc = "gemini"
  /\ \/ /\ calls' = [calls EXCEPT ![c] = [calls[c] EXCEPT !.pc = "create", !.wi = ret.n]]
        /\ UNCHANGED ret
     \/ GmwfFailed(c, generateModuleCatch(calls[c]))
  /\ UNCHANGED <<manifest, fs, rootExists, loadedPlugins, watchers, isWatching,
                 notifs, start, passes, nPasses, callsLeft, events, clock, faults,
                 nextUid>>

\* this.moduleCreator.createModule(...) of the request in slot c.
GmwfCreate(c) ==
  /\ calls[c].op = "generateModuleWithFallback" /\ calls[c].pc = "create"
  /\ ret.n = calls[c].wi
  /\ \E pl \in (IF calls[c].live THEN FallbackPayloads ELSE GeminiPayloads) :
       CmStart(c + 1, pl)

\* createModule returned or threw.  In generateModule a module is followed
\* by the wait for the engine and an error by the catch block; in the
\* fallback a module is returned at once and an error leaves the call.
GmwfCreated(c) ==
  /\ calls[c].op = "generateModuleWithFallback" /\ calls[c].pc = "create"
  /\ calls[c + 1].op = "none"
  /\ ret.n = calls[c].wi + 1
  /\ LET me == [calls[c] EXCEPT !.files = ret.files, !.id = ret.id]
     IN  IF me.live
         THEN Return(calls, c, me, ret.res, {})
         ELSE IF ret.res
         THEN /\ calls' = [calls EXCEPT ![c] = [me EXCEPT !.pc = "wait"]]
              /\ UNCHANGED ret
         ELSE GmwfFailed(c, generateModuleCatch(me))
  /\ UNCHANGED <<manifest, fs, rootExists, loadedPlugins, watchers, isWatching,
                 notifs, start, passes, nPasses, callsLeft, events, clock, faults,
                 nextUid>>

\* The timer of generateModule ran out: generation-completed is emitted and
\* the result returned.
GmwfDone(c) ==
  /\ calls[c].op = "generateModuleWithFallback" /\ calls[c].pc = "wait"
  /\ Return(calls, c,
            [calls[c] EXCEPT !.evs = Append(@, GenEvent("generation-completed"))],
            TRUE, {})
  /\ UNCHANGED <<manifest, fs, rootExists, loadedPlugins, watchers, isWatching,
                 notifs, start, passes, nPasses, events, clock, faults, nextUid>>

InitGen == InitDisk /\ InitProcess /\ callsLeft = MaxGenCalls

NextGen ==
  \/ StRead
  \/ StMkCfg
  \/ StLoad
  \/ StWatch
  \/ \E p \in DOMAIN passes : HcRead(p)
  \/ \E p \in DOMAIN passes : HcLoad(p)
  \/ GmwfStart(1)
  \/ GmwfGemini(1)
  \/ GmwfCreate(1)
  \/ CmMkdir(2)
  \/ CmWriteFile(2)
  \/ CmRegRead(2)
  \/ CmRegWrite(2)
  \/ GmwfCreated(1)
  \/ GmwfDone(1)

SpecGen == InitGen /\ [][NextGen]_vars

(***************************************************************************)
(* One createModule that makes module a again on the started engine, with  *)
(* a manifest write that the watcher reports more than once: fs.watch      *)
(* calls back for every change the operating system reports of the write.  *)
(***************************************************************************)

\* What comes from outside in one behaviour: the createModule and the
\* further reports of its write.  Every report has its run of
\* handleConfigChange.
MaxReports == 3

\* The watcher reports the last write of plugins.json once more.
WatchAgain ==
  /\ "config" \in watchers
  /\ ret.wman
  /\ callsLeft > 0
  /\ notifs < MaxNotifs
  /\ callsLeft' = callsLeft - 1
  /\ notifs' = Notified
  /\ UNCHANGED <<manifest, fs, rootExists, loadedPlugins, watchers, isWatching,
                 start, passes, nPasses, calls, ret, events, clock, faults, nextUid>>

InitBurst ==
  /\ manifest = <<Entry("a", TRUE, 0)>>
  /\ fs = Put(EmptyFn, "a", EarlierModule)
  /\ rootExists = TRUE
  /\ loadedPlugins = EmptyFn
  /\ watchers = {}
  /\ isWatching = FALSE
  /\ notifs = 0
  /\ start = [pc |-> "new", cfg |-> <<>>, idx |-> 0]
  /\ passes = [p \in 1..MaxReports |-> IdlePass]
  /\ nPasses = 0
  /\ calls = [c \in 1..MaxInFlight |-> IdleCall]
  /\ ret = NoReturn
  /\ events = <<>>
  /\ clock = 0
  /\ faults = 0
  /\ nextUid = 1
  /\ callsLeft = MaxReports

NextBurst ==
  \/ StRead
  \/ StLoad
  \/ StWatch
  \/ Tick
  \/ Running /\ ret.n = 0 /\ \E s \in Slugs : CmStart(1, Payload(s, EngineFiles))
  \/ CmMkdir(1)
  \/ CmWriteFile(1)
  \/ CmRegRead(1)
  \/ CmRegWrite(1)
  \/ WatchAgain
  \/ \E p \in DOMAIN passes : HcRead(p)
  \/ \E p \in DOMAIN passes : HcLoad(p)

SpecBurst == InitBurst /\ [][NextBurst]_vars

(***************************************************************************)
(* PluginLoader.loadPlugins, the loader of the backend.  Its fields have   *)
(* the names of the engine's: manifest is plugins.json on disk,            *)
(* loadedPlugins its own map, and start the position of loadPlugins in its *)
(* loop with pluginManifest.plugins, the manifest as parsed and as changed *)
(* in memory since, in cfg.  The directories it makes lie beside           *)
(* generated/, not below it.  After loadPlugins its callers call           *)
(* updatePluginStatus and reloadPlugin, one call at a time.                *)
(***************************************************************************)

\* Descriptors in one manifest of the loader.
MaxDescriptors == 2
\* Calls of updatePluginStatus and reloadPlugin in one behaviour.
MaxLoaderCalls == 2

\* A descriptor as far as the loader looks at it: its id ("" when missing),
\* whether name and version are there, and its status.
Descriptor(id, named, status) == [id |-> id, named |-> named, status |-> status]
Descriptors ==
  {Descriptor(id, named, status) :
     id \in Slugs \cup {""}, named \in BOOLEAN,
     status \in {"active", "development", "inactive"}}

\* plugin.status === 'active' || plugin.status === 'development'
Eligible(plugin) == plugin.status \in {"active", "development"}

\* PluginLoader.validatePluginConfig: TRUE when it does not throw.
validatePluginConfig(config, loaded) ==
  /\ config.id # "" /\ config.named
  /\ config.id \notin DOMAIN loaded

\* The next descriptor from index i on that the loop loads.
RECURSIVE NextEligible(_, _)
NextEligible(cfg, i) ==
  IF i > Len(cfg) THEN i
  ELSE IF Eligible(cfg[i]) THEN i
  ELSE NextEligible(cfg, i + 1)

\* loadPlugins after the read of plugins.json: an unreadable manifest is
\* logged and thrown again.
LpRead ==
  /\ start.pc = "new"
  /\ IF manifest = Bad
     THEN start' = [start EXCEPT !.pc = "failed"]
     ELSE LET j == NextEligible(manifest, 1)
          IN  start' = [pc |-> IF j <= Len(manifest) THEN "load" ELSE "done",
                        cfg |-> manifest, idx |-> j]
  /\ UNCHANGED <<manifest, fs, rootExists, loadedPlugins, watchers, isWatching,
                 notifs, passes, nPasses, calls, callsLeft, ret, events, clock,
                 faults, nextUid>>

\* loadPlugin of the descriptor at idx: a descriptor that does not validate
\* throws, loadPlugin logs and throws again, and so does loadPlugins; a
\* valid one is stored in the map and the loop goes on.
LpLoad ==
  /\ start.pc = "load"
  /\ LET config == start.cfg[start.idx]
         j == NextEligible(start.cfg, start.idx + 1)
     IN  IF validatePluginConfig(config, loadedPlugins)
         THEN /\ loadedPlugins' = Put(loadedPlugins, config.id, [isLoaded |-> TRUE])
              /\ start' = [start EXCEPT !.idx = j,
                             !.pc = IF j <= Len(start.cfg) THEN "load" ELSE "done"]
         ELSE /\ start' = [start EXCEPT !.pc = "failed"]
              /\ UNCHANGED loadedPlugins
  /\ UNCHANGED <<manifest, fs, rootExists, watchers, isWatching, notifs, passes,
                 nPasses, calls, callsLeft, ret, events, clock, faults, nextUid>>

\* updatePluginStatus: the first descriptor of the id gets the status in
\* pluginManifest, the manifest is written, and then an 'active' plugin the
\* map lacks is loaded and an 'inactive' one the map has is deleted.  A
\* failed write and a descriptor that does not validate throw.
UpdatePluginStatus(pluginId, status) ==
  /\ start.pc = "done"
  /\ callsLeft > 0
  /\ HasEntry(start.cfg, pluginId)
  /\ callsLeft' = callsLeft - 1
  /\ LET i == FindIndex(start.cfg, pluginId)
         cfg == [start.cfg EXCEPT ![i].status = status]
         plugin == cfg[i]
         Done(res) == ret' = [NoReturn EXCEPT !.n = ret.n + 1, !.op = "updatePluginStatus",
                                             !.id = pluginId, !.res = res]
     IN  /\ start' = [start EXCEPT !.cfg = cfg]
         /\ \E ok \in Outcomes :
              IF ~ok
              THEN /\ faults' = faults + 1
                   /\ Done(FALSE)
                   /\ UNCHANGED <<manifest, loadedPlugins>>
              ELSE /\ manifest' = cfg
                   /\ UNCHANGED faults
                   /\ IF status = "active" /\ pluginId \notin DOMAIN loadedPlugins
                      THEN IF validatePluginConfig(plugin, loadedPlugins)
                           THEN /\ loadedPlugins' =
                                     Put(loadedPlugins, pluginId, [isLoaded |-> TRUE])
                                /\ Done(TRUE)
                           ELSE UNCHANGED loadedPlugins /\ Done(FALSE)
                      ELSE IF status = "inactive" /\ pluginId \in DOMAIN loadedPlugins
                      THEN loadedPlugins' = Drop(loadedPlugins, pluginId) /\ Done(TRUE)
                      ELSE UNCHANGED loadedPlugins /\ Done(TRUE)
  /\ UNCHANGED <<fs, rootExists, watchers, isWatching, notifs, passes, nPasses,
                 calls, events, clock, nextUid>>

\* reloadPlugin of a loaded id: the record is deleted and loadPlugin is
\* called with the record's config, which validated when it was loaded and
\* whose id the map no longer has.  An id the map lacks throws.
ReloadPlugin(pluginId) ==
  /\ start.pc = "done"
  /\ callsLeft > 0
  /\ pluginId \in DOMAIN loadedPlugins
  /\ callsLeft' = callsLeft - 1
  /\ loadedPlugins' = Put(Drop(loadedPlugins, pluginId), pluginId, [isLoaded |-> TRUE])
  /\ ret' = [NoReturn EXCEPT !.n = ret.n + 1, !.op = "reloadPlugin",
                             !.id = pluginId, !.res = TRUE]
  /\ UNCHANGED <<manifest, fs, rootExists, watchers, isWatching, notifs, start,
                 passes, nPasses, calls, events, clock, faults, nextUid>>

InitLoader ==
  /\ manifest \in {Bad} \cup UNION {[1..n -> Descriptors] : n \in 0..MaxDescriptors}
  /\ fs = EmptyFn
  /\ InitProcess
  /\ callsLeft = MaxLoaderCalls

NextLoader ==
  \/ LpRead
  \/ LpLoad
  \/ \E id \in Slugs, status \in {"active", "development", "inactive"} :
       UpdatePluginStatus(id, status)
  \/ \E id \in Slugs : ReloadPlugin(id)

SpecLoader == InitLoader /\ [][NextLoader]_vars

(***************************************************************************)
(* The loop body of processModuleFiles on one file: determineFileType and  *)
(* processFileContent, for file names of every extension and naming        *)
(* convention the two look at.                                             *)
(***************************************************************************)

\* Files processed in one behaviour.
MaxProcessCalls == 1

\* File names by extension and by the words in them.
InferPaths ==
  (PayloadPaths \ {NoPath}) \cup
  {"form.test.ts", "api.spec.ts", "init.sql", "migration.json", "migration.ts",
   "migration.test.js", "schema.graphql", "schema.json", "schema.ts",
   "testdata.json"}

ProcessInputs ==
  {RawFile(p, c, t) : p \in InferPaths, c \in RawContents \ {NoContent},
                      t \in {NoType, "component", "style"}}

\* processModuleFiles, the body of its loop for a valid file: got is the
\* file as given and files the file as pushed.
ProcessFile(file) ==
  /\ callsLeft > 0
  /\ callsLeft' = callsLeft - 1
  /\ ret' = [NoReturn EXCEPT !.n = ret.n + 1, !.op = "processModuleFiles",
                             !.res = TRUE, !.got = {file},
                             !.files = ProcessEach(<<file>>)]
  /\ UNCHANGED <<manifest, fs, rootExists, loadedPlugins, watchers, isWatching,
                 notifs, start, passes, nPasses, calls, events, clock, faults,
                 nextUid>>

InitProcessFile ==
  /\ manifest = <<>>
  /\ fs = EmptyFn
  /\ InitProcess
  /\ callsLeft = MaxProcessCalls

NextProcessFile == \E file \in ProcessInputs : ProcessFile(file)

SpecProcessFile == InitProcessFile /\ [][NextProcessFile]_vars

(***************************************************************************)
(* The two watchers on the started engine, with no API call.  Files below  *)
(* a module directory are created, modified and deleted, and each change   *)
(* is reported to the callback watchDirectory registered; plugins.json is  *)
(* saved with the content it has, which the callback watchFile registered  *)
(* answers with a run of handleConfigChange.  callsLeft bounds the changes.*)
(***************************************************************************)

\* File changes below generated/ in one behaviour.
MaxChanges == 2

\* The id of a manifest entry written without a path: loadPlugin stores its
\* record with path undefined.
Pathless == {"core"}

\* generated/<slug>/<file> changes: 'rename' creates the file or deletes
\* it, 'change' rewrites it.  The watcher's callback passes on the names
\* that end in .json, .ts or .tsx; handleModuleChange takes the first path
\* segment and goes through the table's records in insertion order (here
\* the manifest's, start() alone having filled the table) for the first
\* whose path includes it; p.path.includes raises on a record with no
\* path and the catch block only logs.  With a record found it emits
\* module-changed with the filename and the eventType, and
\* triggerFrontendReload emits frontend-reload-required.  ret records the
\* notification: id the first segment, got the file and the eventType.
WatchedChange(slug, file, kind) ==
  /\ start.pc = "running"
  /\ "generated-modules" \in watchers
  /\ callsLeft > 0
  /\ callsLeft' = callsLeft - 1
  /\ LET dir == IF slug \in DOMAIN fs THEN fs[slug] ELSE EmptyFn
         old == IF file \in DOMAIN dir THEN dir[file].body ELSE ""
         new == Text("user", FALSE, IF old = "edit" THEN "code" ELSE "edit", <<>>, 0, 0)
     IN  IF kind = "change"
         THEN file \in DOMAIN dir /\ fs' = Put(fs, slug, Put(dir, file, new))
         ELSE fs' = Put(fs, slug, IF file \in DOMAIN dir THEN Drop(dir, file)
                                  ELSE Put(dir, file, new))
  /\ ret' = [NoReturn EXCEPT !.n = ret.n + 1, !.op = "watchDirectory",
                             !.id = slug, !.got = {<<file, kind>>}]
  /\ LET order == IF manifest = Bad THEN <<>> ELSE manifest
         stops == {i \in 1..Len(order) :
                     /\ order[i].id \in DOMAIN loadedPlugins
                     /\ order[i].id \in Pathless \/ PathIncludes(order[i].id, slug)}
         first == CHOOSE i \in stops : \A j \in stops : i <= j
     IN  IF /\ ExtName(file) \in {".json", ".ts", ".tsx"}
            /\ stops # {}
            /\ order[first].id \notin Pathless
         THEN LET id == order[first].id
                  plugin == loadedPlugins[id]
              IN  events' = events \o
                    <<[name |-> "module-changed", type |-> "updated", id |-> id,
                       enabled |-> plugin.enabled, meta |-> plugin.meta,
                       ts |-> clock, by |-> 0, file |-> <<slug, file>>, kind |-> kind],
                      Event("frontend-reload-required", "frontend", id, plugin, 0)>>
         ELSE UNCHANGED events
  /\ UNCHANGED <<manifest, rootExists, loadedPlugins, watchers, isWatching, notifs,
                 start, passes, nPasses, calls, clock, faults, nextUid>>

\* plugins.json is saved with the content it has: the manifest's watcher
\* reports a 'change'.
ManifestTouched ==
  /\ start.pc = "running"
  /\ "config" \in watchers
  /\ callsLeft > 0
  /\ notifs < MaxNotifs
  /\ callsLeft' = callsLeft - 1
  /\ notifs' = Notified
  /\ UNCHANGED <<manifest, fs, rootExists, loadedPlugins, watchers, isWatching,
                 start, passes, nPasses, calls, ret, events, clock, faults, nextUid>>

\* plugins.json is edited by hand: the name of one entry is changed and
\* nothing else.  The manifest's watcher reports a 'change'.
ManifestEdited(i) ==
  /\ start.pc = "running"
  /\ manifest # Bad
  /\ i \in 1..Len(manifest)
  /\ manifest[i].name # "renamed"
  /\ callsLeft > 0
  /\ callsLeft' = callsLeft - 1
  /\ manifest' = [manifest EXCEPT ![i].name = "renamed"]
  /\ notifs' = Notified
  /\ UNCHANGED <<fs, rootExists, loadedPlugins, watchers, isWatching, start,
                 passes, nPasses, calls, ret, events, clock, faults, nextUid>>

\* plugins.json is overwritten with something that is not valid JSON, or
\* a writer has truncated it and not yet written it out: the manifest's
\* watcher reports a 'change'.
ManifestDamaged ==
  /\ start.pc = "running"
  /\ manifest # Bad
  /\ callsLeft > 0
  /\ callsLeft' = callsLeft - 1
  /\ manifest' = Bad
  /\ notifs' = Notified
  /\ UNCHANGED <<fs, rootExists, loadedPlugins, watchers, isWatching, start,
                 passes, nPasses, calls, ret, events, clock, faults, nextUid>>

\* The disks of the life cycle, and one whose manifest has an entry with
\* no path ahead of module a's.
InitWatch ==
  /\ \/ InitLifeDisk
     \/ /\ manifest = <<Entry("core", FALSE, 0), Entry("a", TRUE, 0)>>
        /\ fs = Put(EmptyFn, "a", EarlierModule)
  /\ InitProcess
  /\ callsLeft = MaxChanges

NextWatch ==
  \/ StRead
  \/ StMkCfg
  \/ StLoad
  \/ StWatch
  \/ \E s \in Slugs, f \in {"component.tsx", "plugin.json", "styles.css"},
          k \in {"rename", "change"} : WatchedChange(s, f, k)
  \/ ManifestTouched
  \/ \E i \in DOMAIN manifest : ManifestEdited(i)
  \/ ManifestDamaged
  \/ \E p \in DOMAIN passes : HcRead(p)
  \/ \E p \in DOMAIN passes : HcLoad(p)
  \/ Tick

SpecWatch == InitWatch /\ [][NextWatch]_vars

(***************************************************************************)
(* Properties                                                              *)
(***************************************************************************)

\* A call returned in this step.
Returns(op) == ret'.n # ret.n /\ ret'.op = op

\* The manifest cfg has an entry of id whose enabled is en.
EntryEnabled(cfg, id, en) ==
  cfg # Bad /\ HasEntry(cfg, id) /\ cfg[FindIndex(cfg, id)].enabled = en

IsEvent(e, type, id) == e.type = type /\ e.id = id

(* ---- C1 ---- *)

\* C1: when a run of handleConfigChange ends, every 'removed' event it
\* emitted comes after the 'added' event of each plugin it loaded from an
\* enabled entry whose path existed, and after every 'added' event it
\* emitted: no run emits a 'removed' ahead of one of its 'added'.
C1_AddedBeforeRemoved ==
  [][\A p \in DOMAIN passes :
       (passes[p].pc = "load" /\ passes'[p].pc = "done") =>
         LET me == passes[p]
             loaded == me.ld \cup LoadedEnabled(me.cfg[me.idx])
         IN  \A j \in 1..Len(events') :
               (events'[j].type = "removed" /\ events'[j].by = p) =>
                 /\ \A b \in loaded :
                      \E i \in 1..(j - 1) :
                        IsEvent(events'[i], "added", b) /\ events'[i].by = p
                 /\ \A i \in 1..Len(events') :
                      (events'[i].type = "added" /\ events'[i].by = p) => i < j]_vars

\* One run added b and removed a.
C1_Witness ==
  \E i, j \in 1..Len(events) :
    /\ i < j
    /\ IsEvent(events[i], "added", "b")
    /\ IsEvent(events[j], "removed", "a")
    /\ events[i].by = events[j].by
    /\ events[i].by > 0

(* ---- C2 ---- *)

\* Nothing is pending: the engine runs, every notification was delivered,
\* no run of handleConfigChange awaits, no call is in flight.
Quiescent == Running /\ Quiet /\ manifest # Bad

\* C2: once nothing is pending, the ids of the table are the ids of the
\* manifest on disk.
C2_TableMatchesManifest == Quiescent => DOMAIN loadedPlugins = ManifestIds

(* ---- C3 ---- *)

Toggles == {"togglePlugin", "toggleModuleStatus"}

\* C3: when a createModule and a toggle of another id ran beside each other
\* and both wrote the manifest, then as the later one returns the manifest
\* has the new module's entry, and the toggled entry has the requested
\* enabled value.
C3_NoLostUpdate ==
  [][(/\ ret.n >= 1 /\ ret'.n = ret.n + 1
      /\ ret.res /\ ret'.res /\ ret.wman /\ ret'.wman
      /\ ~ret'.alone
      /\ ret.id # ret'.id
      /\ \/ ret.op = "createModule" /\ ret'.op \in Toggles
         \/ ret.op \in Toggles /\ ret'.op = "createModule")
     => LET cm == IF ret.op = "createModule" THEN ret ELSE ret'
            tg == IF ret.op = "createModule" THEN ret' ELSE ret
        IN  /\ manifest' # Bad
            /\ HasEntry(manifest', cm.id)
            /\ EntryEnabled(manifest', tg.id, tg.en)]_vars

(* ---- C4 ---- *)

\* C4: whenever togglePlugin(id, enabled), with no call beside it, returns
\* true, the table's record
\* of id and the manifest's entry of id have enabled = enabled, and the call
\* emitted one plugin-toggled event of the matching kind for id.
C4_ToggleTrue ==
  [][(Returns("togglePlugin") /\ ret'.res /\ ret'.alone) =>
       /\ ret'.id \in DOMAIN loadedPlugins'
       /\ loadedPlugins'[ret'.id].enabled = ret'.en
       /\ EntryEnabled(manifest', ret'.id, ret'.en)
       /\ Len(ret'.evs) = 1
       /\ ret'.evs[1].name = "plugin-toggled"
       /\ IsEvent(ret'.evs[1], IF ret'.en THEN "enabled" ELSE "disabled", ret'.id)]_vars

(* ---- C5 ---- *)

\* C5: togglePlugin and reloadPlugin of an id that neither the table nor
\* the manifest has return false, emit no event, and leave the table and
\* the manifest as they were.
C5_UnknownId ==
  [][((Returns("togglePlugin") \/ Returns("reloadPlugin")) /\ ret'.unk) =>
       /\ ~ret'.res
       /\ ret'.evs = <<>> /\ events' = events
       /\ loadedPlugins' = loadedPlugins
       /\ ~ret'.wman /\ manifest' = manifest]_vars

\* togglePlugin of an unknown id returned.
C5_Witness ==
  /\ ret.op = "togglePlugin" /\ ret.unk /\ ~ret.res
  /\ ret.id \notin DOMAIN loadedPlugins

(* ---- C6 ---- *)

\* togglePlugin(id, true) returned true for a registered id with nothing
\* else going on, and the next call, togglePlugin(id, true) again with no
\* call beside it and no failed write, returns.
TwiceEnabled ==
  /\ ret.n >= 1 /\ ret'.n = ret.n + 1
  /\ ret.op = "togglePlugin" /\ ret'.op = "togglePlugin"
  /\ ret.id = ret'.id /\ ret.en /\ ret'.en
  /\ ret.res /\ ret.reg /\ ret.quiet /\ ret.alone
  /\ ret'.alone /\ ~ret'.fault

StillEnabled ==
  /\ ret'.res
  /\ ret'.id \in DOMAIN loadedPlugins' /\ loadedPlugins'[ret'.id].enabled
  /\ EntryEnabled(manifest', ret'.id, TRUE)

C7_DeletionTerminal ==
  [][\A s \in Slugs :
       (Returns("deleteModule") /\ ret'.res /\ ret'.alone /\ ret'.id = s) =>
         (~ModuleOnDisk(s)' /\ s \notin ManifestIds')]_vars

(* ---- C8 ---- *)

FileSet(files) ==
  {ModuleFile(NormPath(files[i].path), files[i].content, files[i].type) :
     i \in 1..Len(files)}

\* C8: getModule(slug) right after a createModule that succeeded for a slug
\* the manifest did not have returns the module of the same id whose files, by path, content and
\* type, are those createModule returned.
C8_RoundTrip ==
  [][(/\ ret.op = "createModule" /\ ret.res /\ ret.unk
      /\ ret'.n = ret.n + 1 /\ ret'.op = "getModule" /\ ret'.id = ret.id)
     => (ret'.res /\ ret'.uid = ret.uid /\ ret'.got = FileSet(ret.files))]_vars

(* ---- C9 ---- *)

\* C9: a createModule whose payload has a file with no path or no content,
\* at whatever place, fails, and wrote nothing below generated/ nor to the
\* manifest.
C9_InvalidFile ==
  [][(Returns("createModule") /\ ret'.bad > 0) =>
       /\ ~ret'.res
       /\ ~ret'.wfs /\ ~ret'.wman
       /\ fs' = fs /\ manifest' = manifest]_vars

\* createModule returned for a payload whose second file is the invalid one.
C9_Witness ==
  /\ ret.op = "createModule" /\ ret.bad = 2 /\ ~ret.res
  /\ fs \in {EmptyFn, Put(EmptyFn, "a", EarlierModule)}

(* ---- C10 ---- *)

\* C10: a createModule one of whose writes failed fails, and did not write
\* the manifest.
C10_WriteFailure ==
  [][(Returns("createModule") /\ ret'.fault) =>
       (~ret'.res /\ ~ret'.wman /\ manifest' = manifest)]_vars

\* createModule failed at a write after it had written files.
C10_Witness ==
  /\ ret.op = "createModule" /\ ret.fault /\ ret.wfs /\ ~ret.res
  /\ "a" \in DOMAIN fs /\ "module-metadata.json" \notin DOMAIN fs["a"]

(* ---- C11 ---- *)

EntriesOf(cfg, id) == {i \in 1..Len(cfg) : cfg[i].id = id}
UniqueIds(cfg) == \A i, j \in 1..Len(cfg) : cfg[i].id = cfg[j].id => i = j

\* C11: no write leaves two manifest entries with one id, and as a
\* createModule(slug) returns the module, the manifest has exactly one entry
\* of slug, enabled, with the metadata of this call.
C11_UniqueIds ==
  [][/\ manifest' # Bad => UniqueIds(manifest')
     /\ (Returns("createModule") /\ ret'.res) =>
          /\ manifest' # Bad
          /\ Cardinality(EntriesOf(manifest', ret'.id)) = 1
          /\ EntryEnabled(manifest', ret'.id, TRUE)]_vars

\* createModule returned for a slug the manifest had, beside another entry.
C11_Witness ==
  /\ ret.op = "createModule" /\ ret.res /\ ret.reg
  /\ manifest # Bad /\ Len(manifest) = 2
  /\ Cardinality(EntriesOf(manifest, ret.id)) = 1

(* ---- C12 ---- *)

ServesIndex(f) == EndsWithIndex(f.path)
ServesPackageJson(f) == EndsWithPackageJson(f.path)
ServesReadme(f) == EndsWithReadme(f.path)
Synthesized(files, kind) ==
  {i \in 1..Len(files) : files[i].content.kind = kind}

\* C12: the files a createModule returns hold exactly one config-typed
\* entry that is the synthesized plugin descriptor, and a synthesized
\* index.ts, package.json and README.md exactly when no file of the payload
\* has a path ending so.
C12_RequiredFiles ==
  [][(Returns("createModule") /\ ret'.res) =>
       LET files == ret'.files
           supplied == {i \in 1..Len(files) : files[i].content.kind = "user"}
       IN  /\ Cardinality(Synthesized(files, "manifest")) = 1
           /\ \A i \in Synthesized(files, "manifest") : files[i].type = "config"
           /\ Cardinality(Synthesized(files, "index")) =
                (IF \E i \in supplied : ServesIndex(files[i]) THEN 0 ELSE 1)
           /\ Cardinality(Synthesized(files, "package")) =
                (IF \E i \in supplied : ServesPackageJson(files[i]) THEN 0 ELSE 1)
           /\ Cardinality(Synthesized(files, "readme")) =
                (IF \E i \in supplied : ServesReadme(files[i]) THEN 0 ELSE 1)]_vars

(* ---- C13 ---- *)

\* C13: the files a createModule returns hold at least one of type config.
C13_HasConfigFile ==
  [][(Returns("createModule") /\ ret'.res) =>
       \E i \in 1..Len(ret'.files) : ret'.files[i].type = "config"]_vars

(* ---- C14 ---- *)

\* The events emitted since the last system-stopped.
RECURSIVE EventsOfRun(_)
EventsOfRun(evs) ==
  IF evs = <<>> THEN <<>>
  ELSE IF evs[Len(evs)].name = "system-stopped" THEN <<>>
  ELSE Append(EventsOfRun(SubSeq(evs, 1, Len(evs) - 1)), evs[Len(evs)])

AddedFor(evs, id) == {i \in 1..Len(evs) : IsEvent(evs[i], "added", id)}

StartReturns == start.pc = "watch" /\ start'.pc = "running"

\* C14: start() does not write a manifest it could read, and when it
\* returns on a manifest with entries the table has a record for each of
\* them, enabled exactly when the entry is enabled and its path exists, and
\* one 'added' event was emitted for each enabled record, none for the others.
C14_StartLoadsAll ==
  [][/\ start.pc \in {"load", "watch"} => manifest' = manifest
     /\ (StartReturns /\ manifest # Bad /\ manifest # <<>>) =>
          /\ DOMAIN loadedPlugins' = Ids(manifest)
          /\ \A i \in 1..Len(manifest) :
               LET e == manifest[i]
               IN  /\ loadedPlugins'[e.id].enabled = (e.enabled /\ e.id \in DOMAIN fs)
                   /\ loadedPlugins'[e.id].meta = e.meta
                   /\ Cardinality(AddedFor(EventsOfRun(events'), e.id)) =
                        (IF loadedPlugins'[e.id].enabled THEN 1 ELSE 0)]_vars

\* start() returned with a loaded and b, whose directory is missing,
\* registered as disabled beside its enabled manifest entry.
C14_Witness ==
  /\ start.pc = "running"
  /\ manifest = <<Entry("a", TRUE, 0), Entry("b", TRUE, 0)>>
  /\ "b" \notin DOMAIN fs
  /\ DOMAIN loadedPlugins = {"a", "b"}
  /\ loadedPlugins["a"].enabled /\ ~loadedPlugins["b"].enabled
  /\ AddedFor(events, "a") # {} /\ AddedFor(events, "b") = {}

(* ---- C15 ---- *)

\* C15: when a start() that found no readable manifest has written the
\* empty one (nothing after that point of start() touches the table), the
\* manifest is empty, the table is empty and this start() emitted no 'added'.
C15_StartRepairs ==
  [][(start.pc = "mkcfg" /\ start'.pc = "watch") =>
       /\ manifest' # Bad /\ Len(manifest') = 0
       /\ DOMAIN loadedPlugins' = {}
       /\ \A i \in 1..Len(EventsOfRun(events')) :
            EventsOfRun(events')[i].type # "added"]_vars

(* ---- C16 ---- *)

\* C16: a record that is disabled while its path does not exist is not
\* enabled by any step that leaves the path missing and the record in the
\* table.
C16_ErrorAbsorbing ==
  [][\A id \in Slugs :
       (/\ id \in DOMAIN loadedPlugins /\ ~loadedPlugins[id].enabled
        /\ id \notin DOMAIN fs /\ id \notin DOMAIN fs'
        /\ id \in DOMAIN loadedPlugins')
       => ~loadedPlugins'[id].enabled]_vars

(* ---- C17 ---- *)

EventTypes(evs) == [i \in 1..Len(evs) |-> evs[i].type]

\* C17: when a run of handleConfigChange has loaded an entry, it emitted
\* for the entry's id 'added' alone if the table did not have the id, and
\* 'updated' alone if it had; the 'removed' events it emits are for ids the
\* manifest it read does not have.
C17_EventsPerId ==
  [][\A p \in DOMAIN passes :
       (/\ passes[p].pc = "load"
        /\ (passes'[p].pc = "done" \/ passes'[p].idx # passes[p].idx))
       => LET me == passes[p]
              id == me.cfg[me.idx].id
              new == SubSeq(events', Len(events) + 1, Len(events'))
              Mine(e) == e.by = p /\ e.id = id
              Gone(e) == e.by = p /\ e.type = "removed"
          IN  /\ EventTypes(SelectSeq(new, Mine)) =
                   (IF me.upd THEN <<"updated">> ELSE <<"added">>)
              /\ \A i \in 1..Len(new) : Gone(new[i]) => new[i].id \notin Ids(me.cfg)]_vars

(* ---- C18 ---- *)

\* C18: reloadPlugin(id) with no call beside it returns false when the
\* manifest has no entry of id; otherwise it returns true, the table's
\* record of id is the one loadPlugin makes of the entry, the other records
\* and the manifest are as before, and it emitted one event, an 'updated'.
C18_Reload ==
  [][(Returns("reloadPlugin") /\ ret'.alone) =>
       IF manifest # Bad /\ HasEntry(manifest, ret'.id)
       THEN /\ ret'.res
            /\ ret'.id \in DOMAIN loadedPlugins'
            /\ loadedPlugins'[ret'.id] = PluginInfo(manifest[FindIndex(manifest, ret'.id)])
            /\ \A x \in DOMAIN loadedPlugins \ {ret'.id} :
                 x \in DOMAIN loadedPlugins' /\ loadedPlugins'[x] = loadedPlugins[x]
            /\ DOMAIN loadedPlugins' \subseteq DOMAIN loadedPlugins \cup {ret'.id}
            /\ manifest' = manifest
            /\ EventTypes(ret'.evs) = <<"updated">>
       ELSE ~ret'.res]_vars

(* ---- C19 ---- *)

\* A step of stop(): a call from outside on the running engine that leaves
\* the disk alone.
StopStep == start.pc = "running" /\ callsLeft' # callsLeft /\ fs' = fs

\* C19: when stop() returns no watcher is left in the map, isWatching is
\* false, system-stopped was emitted and the manifest is as before.
C19_StopCompletes ==
  [][StopStep =>
       /\ watchers' = {}
       /\ ~isWatching'
       /\ Len(events') = Len(events) + 1
       /\ events'[Len(events')].name = "system-stopped"
       /\ manifest' = manifest]_vars

(* ---- C20 ---- *)

\* C20: on the started engine, a change of a file below generated/<slug>
\* for a slug the table has is followed by a module-changed event for it.
C20_ModuleChangeSeen ==
  [][\A s \in Slugs :
       (/\ start.pc = "running" /\ s \in DOMAIN loadedPlugins
        /\ s \in DOMAIN fs' /\ (s \notin DOMAIN fs \/ fs'[s] # fs[s]))
       => \E i \in (Len(events) + 1)..Len(events') :
            events'[i].name = "module-changed" /\ events'[i].id = s]_vars

(* ---- C21 ---- *)

\* C21: a togglePlugin(slug, false) that ran with no call beside it and no
\* failed write, right after a createModule(slug) that succeeded, returns
\* true and leaves the table with a disabled record of slug.
C21_ToggleAfterCreate ==
  [][(/\ Returns("togglePlugin") /\ ret'.alone /\ ~ret'.en /\ ~ret'.fault
      /\ ret.op = "createModule" /\ ret.res /\ ret.id = ret'.id)
     => /\ ret'.res
        /\ ret'.id \in DOMAIN loadedPlugins'
        /\ ~loadedPlugins'[ret'.id].enabled]_vars

(* ---- C22 ---- *)

\* C22: once the engine is running with nothing in flight, no run of
\* handleConfigChange under way and no notification left, the last call
\* that returned, if it was a createModule that succeeded for a new slug,
\* has been followed by an 'added' event for the slug and the table has it;
\* if it was a deleteModule that returned true, it has been followed by a
\* 'removed' event for the slug and the table does not have it.
C22_EventuallyReconciled ==
  (Running /\ Quiet) =>
    /\ (ret.op = "createModule" /\ ret.res /\ ret.unk) =>
         /\ ret.id \in DOMAIN loadedPlugins
         /\ \E i \in 1..Len(events) : IsEvent(events[i], "added", ret.id)
    /\ (ret.op = "deleteModule" /\ ret.res) =>
         /\ ret.id \notin DOMAIN loadedPlugins
         /\ \E i \in 1..Len(events) : IsEvent(events[i], "removed", ret.id)

(* ---- C23 ---- *)

\* C23: a step changes a directory below generated/ only while a
\* createModule of that directory's slug is in flight.
C23_WritesInsideModule ==
  [][\A s \in DOMAIN fs' :
       (s \notin DOMAIN fs \/ fs'[s] # fs[s])
       => \E c \in DOMAIN calls : calls[c].op = "createModule" /\ calls[c].id = s]_vars

(* ---- C24 ---- *)

\* C24: a generateModuleWithFallback whose generateModule failed (it
\* emitted generation-failed) returns success = true with a module.
C24_FallsBack ==
  [][(/\ Returns("generateModuleWithFallback")
      /\ \E i \in 1..Len(ret'.evs) : ret'.evs[i].name = "generation-failed")
     => ret'.res /\ ret'.files # <<>>]_vars

(* ---- C25 ---- *)

\* C25: when a createModule returns the module, the module's directory has
\* plugin.json, module-metadata.json and index.ts.
C25_RootFiles ==
  [][(Returns("createModule") /\ ret'.res) =>
       /\ ret'.id \in DOMAIN fs'
       /\ {"plugin.json", "module-metadata.json", "index.ts"} \subseteq DOMAIN fs'[ret'.id]]_vars

(* ---- C26 ---- *)

UpdatedFor(evs, id) == {i \in 1..Len(evs) : IsEvent(evs[i], "updated", id)}

\* C26: with one createModule of the loaded module a, the engine emits at
\* most two 'updated' events for a.
C26_AtMostTwoUpdated == Cardinality(UpdatedFor(events, "a")) <= 2

(* ---- C27 ---- *)

WellFormed(plugin) == plugin.id # "" /\ plugin.named

\* C27: a loadPlugins that read the manifest does not fail, and when it has
\* ended every active or development descriptor with id, name and version
\* is in the map.
C27_AbsorbsInvalid ==
  (start.pc \in {"done", "failed"} /\ start.cfg # <<>>) =>
    /\ start.pc = "done"
    /\ \A i \in 1..Len(start.cfg) :
         (Eligible(start.cfg[i]) /\ WellFormed(start.cfg[i]))
         => start.cfg[i].id \in DOMAIN loadedPlugins

(* ---- C28 ---- *)

\* The createModule that returns in this step.
Returning(c) ==
  calls[c].op = "createModule" /\ calls'[c].op = "none" /\ Returns("createModule")

\* C28: a createModule that returns the module for a slug the manifest had
\* leaves one entry of the slug, enabled and with this call's metadata, and
\* the entries of the other ids as they were; and no step of a createModule
\* removes a file or changes one other than the file it writes.
C28_ReplacesEntryKeepsFiles ==
  [][/\ \A c \in DOMAIN calls :
          (/\ Returning(c) /\ ret'.res
           /\ manifest # Bad /\ HasEntry(manifest, calls[c].id))
          => /\ manifest' # Bad
             /\ Cardinality(EntriesOf(manifest', calls[c].id)) = 1
             /\ manifest'[FindIndex(manifest', calls[c].id)] =
                  Entry(calls[c].id, TRUE, calls[c].stamp)
             /\ FilterOut(manifest', calls[c].id) = FilterOut(manifest, calls[c].id)
     /\ \A s \in DOMAIN fs :
          /\ s \in DOMAIN fs'
          /\ \A f \in DOMAIN fs[s] :
               /\ f \in DOMAIN fs'[s]
               /\ fs'[s][f] # fs[s][f] =>
                    \E c \in DOMAIN calls :
                      /\ calls[c].op = "createModule" /\ calls[c].pc = "write"
                      /\ calls[c].wl[calls[c].wi].path = f]_vars

\* createModule returned for module a, whose entry it replaced beside the
\* entry of b, and the component of the earlier module a is still on disk
\* though this call's files do not have it.
C28_Witness ==
  /\ ret.op = "createModule" /\ ret.res /\ ret.id = "a"
  /\ manifest = <<Entry("b", FALSE, 0), Entry("a", TRUE, 0)>>
  /\ "component.tsx" \in DOMAIN fs["a"]
  /\ "component.tsx" \notin PathsOf(ret.files)

(* ---- C29 ---- *)

\* The name has "test" or "spec" in it; "migration"; "schema".
NameHasTest(name) ==
  name \in {"form.test.ts", "api.spec.ts", "migration.test.js", "testdata.json"}
NameHasMigration(name) == name \in {"migration.json", "migration.ts", "migration.test.js"}
NameHasSchema(name) == name \in {"schema.graphql", "schema.json", "schema.ts"}

\* The rules as the claim lists them.
ListedType(filePath, explicitType) ==
  LET ext == ExtName(filePath)
      name == BaseName(filePath)
  IN  IF explicitType # NoType THEN explicitType
      ELSE IF ext \in {".tsx", ".jsx"} THEN "component"
      ELSE IF NameHasTest(name) THEN "test"
      ELSE IF ext \in {".css", ".scss", ".less"} THEN "style"
      ELSE IF NameHasMigration(name) \/ ext = ".sql" THEN "migration"
      ELSE IF NameHasSchema(name) THEN "schema"
      ELSE "config"

\* C29: the type of a processed file is the one the listed rules give.
C29_InferredType ==
  (ret.op = "processModuleFiles") =>
    \A file \in ret.got : ret.files[1].type = ListedType(file.path, file.type)

(* ---- C30 ---- *)

\* C30: the content of a processed file is the content given, led by the
\* header when the file is a .ts, .tsx, .js or .jsx file.
C30_OnlyPrepends ==
  (ret.op = "processModuleFiles") =>
    \A file \in ret.got :
      /\ ret.files[1].content.body = file.content
      /\ ret.files[1].content.hdr = IsSourceLike(file.path)

(* ---- C31 ---- *)

\* C31: a change reported by the watcher of generated/ whose first path
\* segment is in the path of a loaded plugin makes the engine emit exactly
\* two events: module-changed for that plugin with the changed filename and
\* the change kind, then frontend-reload-required for the same plugin.
C31_ModuleChangedOnce ==
  [][(Returns("watchDirectory") /\ ret'.id \in DOMAIN loadedPlugins) =>
       LET new == SubSeq(events', Len(events) + 1, Len(events'))
       IN  /\ Len(new) = 2
           /\ new[1].name = "module-changed"
           /\ new[1].id = ret'.id
           /\ \E c \in ret'.got : new[1].file = <<ret'.id, c[1]>> /\ new[1].kind = c[2]
           /\ new[2].name = "frontend-reload-required"
           /\ new[2].id = new[1].id]_vars

(* ---- C32 ---- *)

\* C32: with one createModule of the new module b and its write of
\* plugins.json reported more than once, the engine emits at most one
\* 'added' event for b, and exactly one, with b in the table, once every
\* report was handled.
C32_OneAddedPerWrite ==
  /\ Cardinality(AddedFor(events, "b")) <= 1
  /\ (/\ ret.op = "createModule" /\ ret.id = "b" /\ ret.res
      /\ Quiet /\ nPasses >= 2)
     => /\ Cardinality(AddedFor(events, "b")) = 1
        /\ "b" \in DOMAIN loadedPlugins

(* ---- C33 ---- *)

\* Nobody edited plugins.json: it is as start() read it.
Unedited == manifest # Bad /\ \A i \in 1..Len(manifest) : manifest[i].name = manifest[i].id

\* C33: with the manifest as start() read it and never edited since, no
\* step of a run of handleConfigChange emits an event or changes the table.
C33_PassIdempotent ==
  [][(Unedited /\ \E p \in DOMAIN passes : passes'[p] # passes[p]) =>
       /\ events' = events
       /\ loadedPlugins' = loadedPlugins]_vars

(* ---- C34 ---- *)

\* A run of handleConfigChange ends in this step, no other run is awaiting
\* a loadPlugin, and the manifest is the one the run read.
EndsAlone(p) ==
  /\ passes[p].pc # "done" /\ passes'[p].pc = "done"
  /\ \A q \in DOMAIN passes \ {p} : passes[q].pc # "load"
  /\ manifest' # Bad
  /\ passes[p].pc = "load" => passes[p].cfg = manifest'

\* C34 as stated: when a run of handleConfigChange ends with nothing beside
\* it, every entry of the manifest has a record with the entry's name and
\* metadata, and with its enabled when the path exists.
C34_Mirrors_Stated ==
  [][\A p \in DOMAIN passes : EndsAlone(p) =>
       \A i \in 1..Len(manifest') :
         LET e == manifest'[i]
         IN  /\ e.id \in DOMAIN loadedPlugins'
             /\ loadedPlugins'[e.id].name = e.name
             /\ loadedPlugins'[e.id].meta = e.meta
             /\ PathExists(e.id) => loadedPlugins'[e.id].enabled = e.enabled]_vars

\* C34: when a run of handleConfigChange ends with nothing beside it, every
\* entry of the manifest has a record with the entry's metadata, and with
\* its enabled when the path exists; the record's name is the entry's name
\* when this run loaded the entry's id.
C34_Mirrors ==
  [][\A p \in DOMAIN passes : EndsAlone(p) =>
       \A i \in 1..Len(manifest') :
         LET e == manifest'[i]
         IN  /\ e.id \in DOMAIN loadedPlugins'
             /\ loadedPlugins'[e.id].meta = e.meta
             /\ PathExists(e.id) => loadedPlugins'[e.id].enabled = e.enabled
             /\ (\E k \in (Len(events) + 1)..Len(events') :
                   events'[k].by = p /\ events'[k].id = e.id
                   /\ events'[k].type \in {"added", "updated"})
                => loadedPlugins'[e.id].name = e.name]_vars

\* A run ended on a manifest in which the name of a was edited: the record
\* of a mirrors the entry's enabled and metadata and has the old name.
C34_Witness ==
  /\ start.pc = "running"
  /\ nPasses >= 1 /\ notifs = 0
  /\ \A q \in DOMAIN passes : passes[q].pc # "load"
  /\ manifest # Bad
  /\ \E i \in 1..Len(manifest) :
       /\ manifest[i].id = "a" /\ manifest[i].name = "renamed"
       /\ "a" \in DOMAIN loadedPlugins
       /\ loadedPlugins["a"].name = "a"
       /\ loadedPlugins["a"].meta = manifest[i].meta
       /\ loadedPlugins["a"].enabled = manifest[i].enabled

(* ---- C35 ---- *)

\* C35: a run of handleConfigChange that cannot read or parse plugins.json
\* ends at once, leaves the table, the events and the manifest as they
\* were, and leaves the manifest's watcher in place for the next run.
C35_UnreadableManifest ==
  [][(nPasses' = nPasses + 1 /\ manifest = Bad) =>
       /\ passes'[nPasses'].pc = "done"
       /\ loadedPlugins' = loadedPlugins
       /\ events' = events
       /\ manifest' = manifest
       /\ watchers' = watchers /\ "config" \in watchers']_vars

\* Two runs in a row found plugins.json unreadable, and the table still has
\* the record of a that start() made.
C35_Witness ==
  /\ manifest = Bad
  /\ nPasses = 2 /\ notifs = 0
  /\ passes[1].pc = "done" /\ passes[2].pc = "done"
  /\ "a" \in DOMAIN loadedPlugins
  /\ \A i \in 1..Len(events) : events[i].by = 0

(* ---- C36 ---- *)

\* C36: a togglePlugin that began with nothing pending, ran with no call
\* beside it and returned false left the table as it had found it and
\* emitted no event.
C36_FalseLeavesTable ==
  [][(Returns("togglePlugin") /\ ~ret'.res /\ ret'.quiet /\ ret'.alone) =>
       /\ loadedPlugins' = ret'.was
       /\ ret'.evs = <<>> /\ events' = events]_vars

(* ---- C37 ---- *)

\* C37: every live watcher is in the watchers map, and after stop() has
\* returned none is left.
C37_WatchersTracked ==
  /\ \A i \in 1..Len(WatcherOrder) : UntrackedName(WatcherOrder[i]) \notin watchers
  /\ start.pc = "stopped" => watchers = {}

(* ---- C38 ---- *)

\* The slug has a module directory exactly when the manifest cfg has an
\* entry of it, on the disk dirs.
DirIffEntry(dirs, cfg, slug) ==
  (slug \in DOMAIN dirs) <=> (cfg # Bad /\ HasEntry(cfg, slug))

\* C38: when a createModule or a deleteModule that ran with no call beside
\* it returns successfully, its slug has a module directory exactly when
\* the manifest has an entry of it, and every other slug of which this was
\* true before the call's last step still has it so.
C38_DirIffEntry ==
  [][((Returns("createModule") \/ Returns("deleteModule")) /\ ret'.res /\ ret'.alone) =>
       /\ DirIffEntry(fs', manifest', ret'.id)
       /\ \A s \in Slugs \ {ret'.id} :
            DirIffEntry(fs, manifest, s) => DirIffEntry(fs', manifest', s)]_vars

(* ---- C39 ---- *)

\* The ids loadPlugins would load from the manifest cfg.
EligibleIds(cfg) == {cfg[i].id : i \in {k \in 1..Len(cfg) : Eligible(cfg[k])}}

\* C39: an updatePluginStatus or reloadPlugin that succeeds on a loader
\* whose loaded ids are the active and development ids of its manifest
\* leaves it so, and leaves the manifest on disk the one in memory.
C39_LoadedAreEligible ==
  [][(/\ Returns("updatePluginStatus") \/ Returns("reloadPlugin")
      /\ ret'.res
      /\ DOMAIN loadedPlugins = EligibleIds(start.cfg))
     => /\ DOMAIN loadedPlugins' = EligibleIds(start'.cfg)
        /\ manifest' = start'.cfg]_vars

====
